---- MODULE Spec2Model ----
(***************************************************************************)
(* State machine of the OVR ledger core: the versioned store with its      *)
(* branches, the three StateBranch wrappers (Main, DeliverTx, CheckTx),    *)
(* the EVM transaction pipeline, block commit and the historical RPC       *)
(* handlers.                                                               *)
(***************************************************************************)
EXTENDS Integers, Sequences, FiniteSets, TLC

VARIABLES
    store,   \* versioned store: branch name -> [base, own] version lists
    sb,      \* StateBranch wrappers: branch name -> [txh, blk]
    phase,   \* ABCI position: "idle" (before BeginBlock) or "inblock"
    eph,     \* ephemeral branches on the EVM collections: name -> version names
    ledEph,  \* ephemeral branch names on the ledger-only collections
    resp,    \* the response of the last handler that ran
    lk,      \* write locks of the three wrappers and the threads' positions
    snap,    \* the ledger snapshot file: <<>> or <<the Main wrapper written, its vicinity>>
    rpc,     \* the counter of snapshot_at_height and the contract calls in flight
    vic      \* the vicinity held by the EVM state of each wrapper

vars == <<store, sb, phase, eph, ledEph, resp, lk, snap, rpc, vic>>

-----------------------------------------------------------------------------
(* Bounds of the model *)

MaxHeight == 2          \* blocks that may be committed
MaxTxs == 2             \* successful transactions per block and branch
MaxGasLimit == 2        \* largest gas_limit a transaction carries
MaxLeaked == 1          \* ephemeral branches that may be left behind

(* Program constants *)

GAS_PRICE_MIN == 10
GenesisBalance == 40

MAIN_BRANCH_NAME == "Main"
DELIVER_TX_BRANCH_NAME == "DeliverTx"
CHECK_TX_BRANCH_NAME == "CheckTx"

Signers == {"A", "B"}
Addr == {"A", "B"}
NoSigner == "nobody"    \* what signature recovery yields when it fails

EmptyMap == [x \in {} |-> 0]

Put(f, k, v) == [x \in DOMAIN f \cup {k} |-> IF x = k THEN v ELSE f[x]]

-----------------------------------------------------------------------------
(* Versioned store (vsdb).  A branch holds the versions it inherited from   *)
(* its parent at the fork point (base) and the versions created on it      *)
(* (own).  A version carries its name, the branch that created it and the  *)
(* writes tagged with it.                                                  *)

INITIAL_VERSION == <<-1, -1>>

VsVersion(block_height, tx_position) == <<block_height, tx_position>>

NewVersion(b, name) ==
    [name |-> name, by |-> b, acct |-> EmptyMap, stor |-> EmptyMap,
     blocks |-> EmptyMap, bhash |-> EmptyMap]

AllVers(s, b) == s[b].base \o s[b].own

BranchExists(s, b) == b \in DOMAIN s

BranchCreateByBaseBranch(s, n, p) ==
    [x \in DOMAIN s \cup {n} |->
        IF x = n THEN [base |-> AllVers(s, p), own |-> <<>>] ELSE s[x]]

BranchRemove(s, n) == [x \in DOMAIN s \ {n} |-> s[x]]

BranchHasVersions(s, b) == s[b].own # <<>>

VersionCreatedOnBranch(s, b, name) ==
    \E i \in 1..Len(s[b].own) : s[b].own[i].name = name /\ s[b].own[i].by = b

VersionCreateByBranch(s, b, name) ==
    [s EXCEPT ![b].own = Append(@, NewVersion(b, name))]

VersionPopByBranch(s, b) ==
    [s EXCEPT ![b].own = IF @ = <<>> THEN @ ELSE SubSeq(@, 1, Len(@) - 1)]

BranchMergeToParent(s, c, p) ==
    BranchRemove([s EXCEPT ![p].own = @ \o s[c].own], c)

\* The identifiers of the versions vs: a version name belongs to the branch
\* that created it.
VersionIds(vs) == {<<vs[i].name, vs[i].by>> : i \in 1..Len(vs)}

\* branch_merge_to_parent fails when the branch does not exist or one of its
\* version identifiers is already on the parent.
BranchMergeFails(s, c, p) ==
    \/ ~BranchExists(s, c)
    \/ VersionIds(s[c].own) \cap VersionIds(AllVers(s, p)) # {}

\* The last write of key k in collection fld among the versions vs.
LastWrite(vs, fld, k) ==
    LET idx == {i \in 1..Len(vs) : k \in DOMAIN vs[i][fld]}
    IN  IF idx = {} THEN 0 ELSE CHOOSE i \in idx : \A j \in idx : j <= i

HasKey(s, b, fld, k) == LastWrite(AllVers(s, b), fld, k) # 0

GetByBranch(s, b, fld, k) ==
    AllVers(s, b)[LastWrite(AllVers(s, b), fld, k)][fld][k]

InsertByBranch(s, b, fld, k, v) ==
    [s EXCEPT ![b].own[Len(s[b].own)][fld] = Put(@, k, v)]

\* Keys of collection fld visible on branch b.
KeysOf(s, b, fld) ==
    UNION {DOMAIN AllVers(s, b)[i][fld] : i \in 1..Len(AllVers(s, b))}

-----------------------------------------------------------------------------
(* Accounts and storage cells read through a branch *)

DefaultAccount == [nonce |-> 0, balance |-> 0]

Account(s, b, a) ==
    IF HasKey(s, b, "acct", a) THEN GetByBranch(s, b, "acct", a)
    ELSE DefaultAccount

Balance(s, b, a) == Account(s, b, a).balance

Nonce(s, b, a) == Account(s, b, a).nonce

Storage(s, b, a) ==
    IF HasKey(s, b, "stor", a) THEN GetByBranch(s, b, "stor", a) ELSE 0

\* Every account and storage read on a branch.
Reads(s, b) ==
    [a \in Addr |-> [account |-> Account(s, b, a), storage |-> Storage(s, b, a)]]

-----------------------------------------------------------------------------
(* Blocks, receipts and hashes.  A hash is modelled by the value it is     *)
(* taken of, so equal hashes mean equal contents.                          *)

NoHash == <<>>

\* hash_sha3_256(&[&[]]), the sentinel leaf pushed at commit
SentinelHash ==
    [from |-> "sha3_256_empty", nonce |-> 0, to |-> "", value |-> 0,
     gas_limit |-> 0, gas_price |-> 0]

TxHash(tx) == tx

BlockDefault ==
    [height |-> 0, proposer |-> "", timestamp |-> 0, root_hash |-> NoHash,
     prev_hash |-> NoHash, receipts |-> EmptyMap, header_hash |-> NoHash,
     txs |-> <<>>]

BlockNew(height, proposer, timestamp, prev_hash) ==
    [BlockDefault EXCEPT !.height = height, !.proposer = proposer,
                         !.timestamp = timestamp, !.prev_hash = prev_hash]

BlockHeaderHash(blk) ==
    <<blk.height, blk.proposer, blk.timestamp, blk.root_hash, blk.prev_hash,
      blk.receipts>>

MerkleRoot(hashes) == <<"root", hashes>>

LastBlockHeight(s, b) ==
    LET hs == KeysOf(s, b, "blocks")
    IN  IF hs = {} THEN 0 ELSE CHOOSE h \in hs : \A g \in hs : g <= h

LastBlock(s, b) ==
    IF LastBlockHeight(s, b) = 0 THEN BlockDefault
    ELSE GetByBranch(s, b, "blocks", LastBlockHeight(s, b))

-----------------------------------------------------------------------------
(* EVM transaction pipeline *)

WordBits == 10
U256Max == 2 ^ WordBits - 1

TransferValue == 15
MaxNonce == 2

\* Transactions offered to CheckTx and DeliverTx: transfers from A to B at
\* every nonce, and one transaction for each way preflight can go wrong.
BaseTx ==
    [from |-> "A", nonce |-> 0, to |-> "B", value |-> 0,
     gas_limit |-> MaxGasLimit, gas_price |-> GAS_PRICE_MIN]

Transfers ==
    [from : {"A"}, nonce : 0..MaxNonce, to : {"B"}, value : {0, TransferValue},
     gas_limit : {MaxGasLimit}, gas_price : {GAS_PRICE_MIN}]

Txs ==
    Transfers \cup
    { [BaseTx EXCEPT !.gas_price = GAS_PRICE_MIN - 1],
      [BaseTx EXCEPT !.gas_price = GAS_PRICE_MIN - 1, !.nonce = 1],
      [BaseTx EXCEPT !.from = NoSigner],
      [BaseTx EXCEPT !.from = "B"],
      [BaseTx EXCEPT !.gas_limit = 0],
      [BaseTx EXCEPT !.gas_price = U256Max],
      [BaseTx EXCEPT !.value = U256Max],
      [BaseTx EXCEPT !.to = "A", !.value = TransferValue] }

\* What the EVM interpreter reports for one execution: whether it exits
\* with Succeed, the gas it used and the storage cell value the called code
\* writes at the target (0: none).  A plain transfer uses one unit of gas;
\* a call into code that writes storage uses the whole gas limit.
EvmOutcomes ==
    { [ok |-> TRUE, gas |-> 1, sw |-> 0],
      [ok |-> TRUE, gas |-> MaxGasLimit, sw |-> 1],
      [ok |-> FALSE, gas |-> MaxGasLimit, sw |-> 1] }

CheckGasPrice(tx) == GAS_PRICE_MIN <= tx.gas_price

RecoverSigner(tx) == tx.from

CheckNonce(s, b, tx) == tx.nonce = Nonce(s, b, RecoverSigner(tx))

\* needed_amount of check_balance; -1 stands for the None of checked_mul
\* and checked_add
NeededAmount(tx) ==
    IF tx.gas_price * tx.gas_limit > U256Max THEN -1
    ELSE IF tx.value + tx.gas_price * tx.gas_limit > U256Max THEN -1
    ELSE tx.value + tx.gas_price * tx.gas_limit

\* check_balance that leaves the transferred value out of the needed amount
CheckBalanceFeeOnly(s, b, tx) ==
    /\ tx.gas_limit # 0
    /\ tx.gas_price * tx.gas_limit <= U256Max
    /\ tx.gas_price * tx.gas_limit <= Balance(s, b, RecoverSigner(tx))

\* check_balance that rejects a needed amount equal to the balance
CheckBalanceStrict(s, b, tx) ==
    /\ tx.gas_limit # 0
    /\ NeededAmount(tx) # -1
    /\ NeededAmount(tx) < Balance(s, b, RecoverSigner(tx))

CheckBalance(s, b, tx) ==
    /\ tx.gas_limit # 0
    /\ NeededAmount(tx) # -1
    /\ NeededAmount(tx) <= Balance(s, b, RecoverSigner(tx))

\* pre_exec that checks the nonce before the gas price
PreExecNonceFirst(s, b, tx) ==
    IF RecoverSigner(tx) # NoSigner /\ ~CheckNonce(s, b, tx) THEN "nonce"
    ELSE IF ~CheckGasPrice(tx) THEN "gas_price"
    ELSE IF RecoverSigner(tx) = NoSigner THEN "signature"
    ELSE IF ~CheckBalance(s, b, tx) THEN "balance"
    ELSE "ok"

\* pre_exec: "ok" or the first check that fails
PreExec(s, b, tx) ==
    IF ~CheckGasPrice(tx) THEN "gas_price"
    ELSE IF RecoverSigner(tx) = NoSigner THEN "signature"
    ELSE IF ~CheckNonce(s, b, tx) THEN "nonce"
    ELSE IF ~CheckBalance(s, b, tx) THEN "balance"
    ELSE "ok"

\* The state diff the executor hands back for a call: nonce of the caller
\* bumped, value moved, the storage cell written by the called code.
EvmChanges(s, b, tx, o) ==
    LET caller == RecoverSigner(tx)
        c1 == [Account(s, b, caller) EXCEPT !.nonce = @ + 1,
                                            !.balance = @ - tx.value]
        s1 == InsertByBranch(s, b, "acct", caller, c1)
        t1 == [Account(s1, b, tx.to) EXCEPT !.balance = @ + tx.value]
        s2 == InsertByBranch(s1, b, "acct", tx.to, t1)
    IN  IF o.sw = 0 THEN s2 ELSE InsertByBranch(s2, b, "stor", tx.to, o.sw)

GasUsed(tx, o) == IF o.gas <= tx.gas_limit THEN o.gas ELSE tx.gas_limit

\* The logs the executor hands back; an outcome that names none emits none.
OutcomeLogs(o) == IF "logs" \in DOMAIN o THEN o.logs ELSE <<>>

\* Tx::exec: runs the executor and applies its changes only on success.
ExecRet(tx, o) ==
    [success |-> o.ok, gas_used |-> GasUsed(tx, o),
     fee_used |-> GasUsed(tx, o) * tx.gas_price, caller |-> RecoverSigner(tx),
     logs |-> OutcomeLogs(o)]

\* Tx::exec that drops the executor's changes
ExecDropsChanges(s, b, tx, o) == s

Exec(s, b, tx, o) == IF o.ok THEN EvmChanges(s, b, tx, o) ELSE s

\* Log::new_from_eth_log_and_tx_hash
NewFromEthLogAndTxHash(log, tx_hash) ==
    [data |-> log, tx_hash |-> tx_hash, tx_index |-> 0,
     log_index_in_block |-> 0, log_index_in_tx |-> 0]

GenLogs(ret, tx_hash) ==
    [i \in 1..Len(ret.logs) |-> NewFromEthLogAndTxHash(ret.logs[i], tx_hash)]

\* Receipt::add_logs: every log takes the receipt's tx_index as it is when
\* the logs are added, and its position among the logs
AddLogs(receipt, logs) ==
    [receipt EXCEPT !.logs =
        [i \in 1..Len(logs) |->
            [logs[i] EXCEPT !.tx_index = receipt.tx_index,
                            !.log_index_in_tx = i - 1]]]

GenReceipt(tx, ret) ==
    [tx_hash |-> NoHash, tx_index |-> 0, from |-> RecoverSigner(tx),
     to |-> tx.to, block_gas_used |-> 0, tx_gas_used |-> ret.gas_used,
     status_code |-> ret.success, logs |-> <<>>]

SaturatingSub(a, b) == IF a >= b THEN a - b ELSE 0

\* charge_fee that writes through the default branch instead of b
ChargeFeeOnMain(s, b, caller, amount) ==
    IF amount = 0 THEN s
    ELSE InsertByBranch(s, MAIN_BRANCH_NAME, "acct", caller,
            [Account(s, MAIN_BRANCH_NAME, caller) EXCEPT
                !.balance = SaturatingSub(@, amount)])

ChargeFee(s, b, caller, amount) ==
    IF amount = 0 THEN s
    ELSE InsertByBranch(s, b, "acct", caller,
            [Account(s, b, caller) EXCEPT !.balance = SaturatingSub(@, amount)])

-----------------------------------------------------------------------------
(* StateBranch::apply_tx as a function of the store and the wrapper: the   *)
(* resulting store, wrapper and outcome ("ok", "rejected", "reverted", or  *)
(* "version" when the version for the transaction cannot be created).      *)

TxVersion(w) == VsVersion(w.blk.height, 1 + Len(w.txh))

\* create_version_if_first_tx_failed! without the branch_has_versions test
CreateVersionAlways(s, b) == VersionCreateByBranch(s, b, VsVersion(0, 0))

CreateVersionIfFirstTxFailed(s, b) ==
    IF ~BranchHasVersions(s, b) THEN VersionCreateByBranch(s, b, VsVersion(0, 0))
    ELSE s

\* apply_tx success path that numbers receipts from one
ApplyOkIndexFromOne(s, w, b, tx, o) ==
    LET ret == ExecRet(tx, o)
        s2 == ChargeFee(Exec(s, b, tx, o), b, ret.caller, ret.fee_used)
        txh == Append(w.txh, TxHash(tx))
        receipt == [AddLogs(GenReceipt(tx, ret), GenLogs(ret, TxHash(tx)))
                       EXCEPT !.tx_hash = TxHash(tx),
                              !.tx_index = Len(txh)]
    IN  [store |-> s2,
         w |-> [txh |-> txh,
                blk |-> [w.blk EXCEPT !.txs = Append(@, tx),
                                      !.receipts = Put(@, TxHash(tx), receipt)]],
         out |-> "ok"]

\* apply_tx success path that charges the whole gas limit
ApplyOkChargesLimit(s, w, b, tx, o) ==
    LET ret == ExecRet(tx, o)
        s2 == ChargeFee(Exec(s, b, tx, o), b, ret.caller, tx.gas_limit * tx.gas_price)
        txh == Append(w.txh, TxHash(tx))
        receipt == [AddLogs(GenReceipt(tx, ret), GenLogs(ret, TxHash(tx)))
                       EXCEPT !.tx_hash = TxHash(tx),
                              !.tx_index = Len(txh) - 1]
    IN  [store |-> s2,
         w |-> [txh |-> txh,
                blk |-> [w.blk EXCEPT !.txs = Append(@, tx),
                                      !.receipts = Put(@, TxHash(tx), receipt)]],
         out |-> "ok"]

ApplyOk(s, w, b, tx, o) ==
    LET ret == ExecRet(tx, o)
        s2 == ChargeFee(Exec(s, b, tx, o), b, ret.caller, ret.fee_used)
        txh == Append(w.txh, TxHash(tx))
        receipt == [AddLogs(GenReceipt(tx, ret), GenLogs(ret, TxHash(tx)))
                       EXCEPT !.tx_hash = TxHash(tx),
                              !.tx_index = Len(txh) - 1]
    IN  [store |-> s2,
         w |-> [txh |-> txh,
                blk |-> [w.blk EXCEPT !.txs = Append(@, tx),
                                      !.receipts = Put(@, TxHash(tx), receipt)]],
         out |-> "ok"]

\* apply_tx failure path without the fee charge
ApplyRevertedNoFee(s, w, b, tx, o) ==
    [store |-> CreateVersionIfFirstTxFailed(VersionPopByBranch(Exec(s, b, tx, o), b), b),
     w |-> w, out |-> "reverted"]

\* apply_tx failure path that keeps the transaction's version
ApplyRevertedNoPop(s, w, b, tx, o) ==
    LET ret == ExecRet(tx, o)
    IN  [store |-> ChargeFee(Exec(s, b, tx, o), b, ret.caller, ret.fee_used), w |-> w,
         out |-> "reverted"]

ApplyReverted(s, w, b, tx, o) ==
    LET ret == ExecRet(tx, o)
        s2 == CreateVersionIfFirstTxFailed(VersionPopByBranch(Exec(s, b, tx, o), b), b)
    IN  [store |-> ChargeFee(s2, b, ret.caller, ret.fee_used), w |-> w,
         out |-> "reverted"]

\* apply_tx rejection path that leaves the transaction's version in place
ApplyRejectedNoPop(s, w, b) == [store |-> s, w |-> w, out |-> "rejected"]

ApplyRejected(s, w, b) ==
    [store |-> VersionPopByBranch(s, b), w |-> w, out |-> "rejected"]

ApplyTxResult(s, w, b, tx, o) ==
    IF VersionCreatedOnBranch(s, b, TxVersion(w))
    THEN [store |-> s, w |-> w, out |-> "version"]
    ELSE LET s1 == VersionCreateByBranch(s, b, TxVersion(w))
         IN  IF PreExec(s1, b, tx) # "ok" THEN ApplyRejected(s1, w, b)
             ELSE IF o.ok THEN ApplyOk(s1, w, b, tx, o)
             ELSE ApplyReverted(s1, w, b, tx, o)

-----------------------------------------------------------------------------
(* Ledger construction *)

Resp(op, br, out) ==
    [op |-> op, br |-> br, out |-> out, val |-> 0, h |-> 0, a |-> ""]

GenesisVersion ==
    [NewVersion(MAIN_BRANCH_NAME, INITIAL_VERSION) EXCEPT
        !.acct = [a \in {"A"} |-> [nonce |-> 0, balance |-> GenesisBalance]]]

StateBranchNew == [txh |-> <<>>, blk |-> BlockDefault]

Transient == {DELIVER_TX_BRANCH_NAME, CHECK_TX_BRANCH_NAME}

LedgerNew ==
    LET s0 == [b \in {MAIN_BRANCH_NAME} |-> [base |-> <<>>, own |-> <<GenesisVersion>>]]
        s1 == BranchCreateByBaseBranch(s0, DELIVER_TX_BRANCH_NAME, MAIN_BRANCH_NAME)
    IN  BranchCreateByBaseBranch(s1, CHECK_TX_BRANCH_NAME, MAIN_BRANCH_NAME)

\* The threads of the JSON-RPC server that run contract calls
Threads == {"t1", "t2"}

\* A thread that runs no contract call
NoCall == [pc |-> "idle", h |-> 0, a |-> "", id |-> 0]

\* The counter TMP_ID of snapshot_at_height when the process starts, and no
\* call in flight
RpcIdle == [tmp_id |-> 0, calls |-> [t \in Threads |-> NoCall]]

\* OvrVicinity: the fields a block supplies (the H160 form of the proposer is
\* kept as the proposer it is made from)
DefaultVicinity == [block_coinbase |-> "", block_timestamp |-> 0]

\* State::update_vicinity
UpdateVicinity(block_coinbase, block_timestamp) ==
    [block_coinbase |-> block_coinbase, block_timestamp |-> block_timestamp]

\* refresh_inner: the states of DeliverTx and CheckTx are clones of Main's
\* state, taken before prepare_next_block updates the vicinity of Main
CloneVicinity(v) == [b \in DOMAIN v |-> v[MAIN_BRANCH_NAME]]

RefreshVicinity(v, proposer, timestamp) ==
    [CloneVicinity(v) EXCEPT ![MAIN_BRANCH_NAME] = UpdateVicinity(proposer, timestamp)]

\* Tx::exec: the vicinity of the backend the executor runs on
ExecVicinity(v, b) == v[b]

\* The snapshot file before anything was written to it
NoSnapshot == <<>>

\* What write_snapshot leaves in the file: the encoded Main wrapper, the
\* vicinity of its EVM state included
WriteSnapshot(w, v) == <<w, v>>

\* The RwLocks of Ledger::main, deliver_tx and check_tx, each with the
\* thread that holds its write guard ("" when free), the threads that hold a
\* read guard of Main (readers), and where the consensus connection (cons),
\* the mempool connection (mem) and the query connection (query) stand.
LocksFree ==
    [main |-> "", deliver |-> "", check |-> "", cons |-> "idle", mem |-> "idle",
     readers |-> {}, query |-> "idle"]

Init ==
    /\ store = LedgerNew
    /\ sb = [b \in {MAIN_BRANCH_NAME} \cup Transient |-> StateBranchNew]
    /\ phase = "idle"
    /\ eph = EmptyMap
    /\ ledEph = {}
    /\ resp = Resp("init", "", "")
    /\ lk = LocksFree
    /\ snap = NoSnapshot
    /\ rpc = RpcIdle
    /\ vic = [b \in {MAIN_BRANCH_NAME} \cup Transient |-> DefaultVicinity]

-----------------------------------------------------------------------------
(* BeginBlock: Ledger::consensus_refresh *)

Proposers == {"P1"}
Timestamps == {7}

\* refresh_branches that recreates DeliverTx only
RefreshBranchesKeepsCheckTx(s) ==
    LET s2 == IF BranchExists(s, DELIVER_TX_BRANCH_NAME)
              THEN BranchRemove(s, DELIVER_TX_BRANCH_NAME) ELSE s
    IN  BranchCreateByBaseBranch(s2, DELIVER_TX_BRANCH_NAME, MAIN_BRANCH_NAME)

RefreshBranches(s) ==
    LET s1 == BranchRemove(s, CHECK_TX_BRANCH_NAME)
        s2 == IF BranchExists(s1, DELIVER_TX_BRANCH_NAME)
              THEN BranchRemove(s1, DELIVER_TX_BRANCH_NAME) ELSE s1
        s3 == BranchCreateByBaseBranch(s2, DELIVER_TX_BRANCH_NAME, MAIN_BRANCH_NAME)
    IN  BranchCreateByBaseBranch(s3, CHECK_TX_BRANCH_NAME, MAIN_BRANCH_NAME)

\* prepare_next_block that gives every block the height 1
PrepareBlockAtHeightOne(s, b, proposer, timestamp) ==
    BlockNew(1, proposer, timestamp, LastBlock(s, b).header_hash)

\* prepare_next_block that takes no prev_hash from the last block
PrepareBlockNoPrevHash(s, b, proposer, timestamp) ==
    BlockNew(1 + LastBlock(s, b).height, proposer, timestamp, NoHash)

PrepareBlock(s, b, proposer, timestamp) ==
    BlockNew(1 + LastBlock(s, b).height, proposer, timestamp,
             LastBlock(s, b).header_hash)

\* prepare_next_block: the wrapper and the store after it
PrepareNextBlock(s, b, proposer, timestamp) ==
    LET blk == PrepareBlock(s, b, proposer, timestamp)
    IN  [w |-> [txh |-> <<>>, blk |-> blk],
         store |-> VersionCreateByBranch(s, b, VsVersion(blk.height, 0))]

\* prepare_next_block that fails when any branch of the store holds the
\* version name
PrepareFailsAnyBranch(s, b) ==
    \E x \in DOMAIN s : \E i \in 1..Len(s[x].own) :
        s[x].own[i].name = VsVersion(1 + LastBlock(s, b).height, 0)

PrepareFails(s, b) ==
    VersionCreatedOnBranch(s, b, VsVersion(1 + LastBlock(s, b).height, 0))

BeginBlockDo(proposer, timestamp) ==
    LET s0 == RefreshBranches(store)
        m == PrepareNextBlock(s0, MAIN_BRANCH_NAME, proposer, timestamp)
        d == PrepareNextBlock(m.store, DELIVER_TX_BRANCH_NAME, proposer, timestamp)
        c == PrepareNextBlock(d.store, CHECK_TX_BRANCH_NAME, proposer, timestamp)
    IN  /\ phase = "idle"
        /\ LastBlockHeight(store, MAIN_BRANCH_NAME) < MaxHeight
        /\ ~PrepareFails(s0, MAIN_BRANCH_NAME)
        /\ store' = c.store
        /\ sb' = [b \in DOMAIN sb |->
                    IF b = MAIN_BRANCH_NAME THEN m.w
                    ELSE IF b = DELIVER_TX_BRANCH_NAME THEN d.w ELSE c.w]
        /\ phase' = "inblock"
        /\ resp' = Resp("begin_block", "", "ok")
        /\ UNCHANGED <<eph, ledEph>>

BeginBlock(proposer, timestamp) ==
    /\ BeginBlockDo(proposer, timestamp)
    /\ vic' = RefreshVicinity(vic, proposer, timestamp)
    /\ UNCHANGED <<lk, snap, rpc>>

-----------------------------------------------------------------------------
(* CheckTx and DeliverTx: StateBranch::apply_tx on the handler's branch *)

ApplyTxDo(b, tx, o) ==
    LET r == ApplyTxResult(store, sb[b], b, tx, o)
    IN  /\ BranchExists(store, b)
        /\ Len(sb[b].txh) < MaxTxs
        /\ store' = r.store
        /\ sb' = [sb EXCEPT ![b] = r.w]
        /\ resp' = Resp("apply_tx", b, r.out)
        /\ UNCHANGED <<phase, eph, ledEph>>

ApplyTx(b, tx, o) == ApplyTxDo(b, tx, o) /\ UNCHANGED <<lk, snap, rpc, vic>>

CheckTx(tx, o) == ApplyTx(CHECK_TX_BRANCH_NAME, tx, o)

DeliverTx(tx, o) == phase = "inblock" /\ ApplyTx(DELIVER_TX_BRANCH_NAME, tx, o)

-----------------------------------------------------------------------------
(* Commit: Ledger::commit and StateBranch::commit on Main *)

RECURSIVE SumGas(_, _)
SumGas(receipts, keys) ==
    IF keys = {} THEN 0
    ELSE LET k == CHOOSE x \in keys : TRUE
         IN  receipts[k].tx_gas_used + SumGas(receipts, keys \ {k})

\* the block gas total taken as the number of receipts
BlockGasUsedCountsReceipts(blk) == Cardinality(DOMAIN blk.receipts)

BlockGasUsed(blk) == SumGas(blk.receipts, DOMAIN blk.receipts)

\* StateBranch::commit that hashes the header before the receipts are filled
CommitBlockHashesFirst(w) ==
    LET hashes == Append(w.txh, SentinelHash)
        b1 == [w.blk EXCEPT !.root_hash = MerkleRoot(hashes)]
        filled == [k \in DOMAIN w.blk.receipts |->
                     [w.blk.receipts[k] EXCEPT !.block_gas_used = BlockGasUsed(w.blk)]]
    IN  [b1 EXCEPT !.header_hash = BlockHeaderHash(b1), !.receipts = filled]

\* StateBranch::commit that does not push the sentinel hash
CommitBlockNoSentinel(w) ==
    LET filled == [k \in DOMAIN w.blk.receipts |->
                     [w.blk.receipts[k] EXCEPT !.block_gas_used = BlockGasUsed(w.blk)]]
        b1 == [w.blk EXCEPT !.root_hash = MerkleRoot(w.txh), !.receipts = filled]
    IN  [b1 EXCEPT !.header_hash = BlockHeaderHash(b1)]

\* The block StateBranch::commit stores, from the block in process and the
\* tx hashes in process
CommitBlock(w) ==
    LET hashes == Append(w.txh, SentinelHash)
        filled == [k \in DOMAIN w.blk.receipts |->
                     IF \E i \in 1..Len(hashes) : hashes[i] = k
                     THEN [w.blk.receipts[k] EXCEPT !.block_gas_used = BlockGasUsed(w.blk)]
                     ELSE w.blk.receipts[k]]
        b1 == [w.blk EXCEPT !.root_hash = MerkleRoot(hashes), !.receipts = filled]
    IN  [b1 EXCEPT !.header_hash = BlockHeaderHash(b1)]

StateBranchCommit(s, w) ==
    LET block == CommitBlock(w)
        s1 == InsertByBranch(s, MAIN_BRANCH_NAME, "bhash", block.height, block.header_hash)
    IN  [store |-> InsertByBranch(s1, MAIN_BRANCH_NAME, "blocks", block.height, block),
         w |-> [txh |-> Append(w.txh, SentinelHash), blk |-> BlockDefault]]

\* The inner scope of Ledger::commit: swap the in-process values of Main and
\* DeliverTx, merge DeliverTx into Main
SwapAndMerge(s, wrappers) ==
    [store |-> BranchMergeToParent(s, DELIVER_TX_BRANCH_NAME, MAIN_BRANCH_NAME),
     sb |-> [wrappers EXCEPT ![MAIN_BRANCH_NAME] = wrappers[DELIVER_TX_BRANCH_NAME],
                             ![DELIVER_TX_BRANCH_NAME] = wrappers[MAIN_BRANCH_NAME]]]

\* Ledger::commit without the swap of the in-process values
LedgerCommitNoSwap(s, wrappers) ==
    LET merged == BranchMergeToParent(s, DELIVER_TX_BRANCH_NAME, MAIN_BRANCH_NAME)
        m == StateBranchCommit(merged, wrappers[MAIN_BRANCH_NAME])
    IN  [store |-> m.store, sb |-> [wrappers EXCEPT ![MAIN_BRANCH_NAME] = m.w]]

\* Ledger::commit: swap the in-process values, merge DeliverTx, commit Main
LedgerCommit(s, wrappers) ==
    LET a == SwapAndMerge(s, wrappers)
        m == StateBranchCommit(a.store, a.sb[MAIN_BRANCH_NAME])
    IN  [store |-> m.store, sb |-> [a.sb EXCEPT ![MAIN_BRANCH_NAME] = m.w]]

\* last_block_hash read through the Main wrapper
LastBlockHashOfPrev(s, b) == LastBlock(s, b).prev_hash

LastBlockHash(s, b) == LastBlock(s, b).header_hash

\* App::commit: commit the ledger and answer with Main's last block hash
Commit ==
    /\ phase = "inblock"
    /\ store' = LedgerCommit(store, sb).store
    /\ sb' = LedgerCommit(store, sb).sb
    /\ phase' = "idle"
    /\ resp' = [Resp("commit", MAIN_BRANCH_NAME, "ok") EXCEPT
                  !.val = LastBlockHash(LedgerCommit(store, sb).store, MAIN_BRANCH_NAME)]
    /\ snap' = WriteSnapshot(LedgerCommit(store, sb).sb[MAIN_BRANCH_NAME],
                             vic[MAIN_BRANCH_NAME])
    /\ UNCHANGED <<eph, ledEph, lk, rpc, vic>>

\* App::info: last committed height and, above height 0, its header hash
InfoResp(s) ==
    LET b == LastBlock(s, MAIN_BRANCH_NAME)
    IN  [Resp("info", MAIN_BRANCH_NAME, "ok") EXCEPT
            !.h = b.height,
            !.val = IF 0 < b.height THEN b.header_hash ELSE NoHash]

Info ==
    /\ resp' = InfoResp(store)
    /\ UNCHANGED <<store, sb, phase, eph, ledEph, lk, snap, rpc, vic>>

-----------------------------------------------------------------------------
(* Historical rewind and the RPC handlers that use it.  An ephemeral       *)
(* branch is named by its prefix and height + 1.  The handlers read        *)
(* through their State handle, whose default branch is Main.              *)

BlockNumbers ==
    [kind : {"num"}, n : 1..MaxHeight] \cup
    { [kind |-> "latest", n |-> 0], [kind |-> "earliest", n |-> 0],
      [kind |-> "pending", n |-> 0] }

\* fld: the collection the latest height is read from ("bhash" for the EVM
\* state, "blocks" for the ledger state)
BlockNumberToHeight(s, bn, fld) ==
    IF bn.kind = "num" THEN bn.n
    ELSE IF bn.kind = "latest"
         THEN LET hs == KeysOf(s, MAIN_BRANCH_NAME, fld)
              IN  IF hs = {} THEN 0 ELSE CHOOSE h \in hs : \A g \in hs : g <= h
    ELSE IF bn.kind = "earliest" THEN 1
    ELSE 0

EphName(prefix, height) == <<prefix, height + 1>>

\* rollback_to_height on the EVM state ("evm") or on the whole ledger State
\* ("ledger", whose collections come before and after the EVM ones)
RollbackToHeight(e, l, height, on, prefix) ==
    LET name == EphName(prefix, height)
        made == Put(e, name, <<VsVersion(height + 1, 0)>>)
    IN  IF height = 0 THEN [ok |-> FALSE, eph |-> e, ledEph |-> l, name |-> name]
        ELSE IF on = "evm"
             THEN IF name \in DOMAIN e
                  THEN [ok |-> FALSE, eph |-> e, ledEph |-> l, name |-> name]
                  ELSE [ok |-> TRUE, eph |-> made, ledEph |-> l, name |-> name]
        ELSE IF name \in l
             THEN [ok |-> FALSE, eph |-> e, ledEph |-> l, name |-> name]
        ELSE IF name \in DOMAIN e
             THEN [ok |-> FALSE, eph |-> e, ledEph |-> l \cup {name}, name |-> name]
        ELSE [ok |-> TRUE, eph |-> made, ledEph |-> l \cup {name}, name |-> name]

RemoveBranchByName(e, l, name, on) ==
    LET gone == [x \in DOMAIN e \ {name} |-> e[x]]
    IN  IF on = "evm"
        THEN IF name \in DOMAIN e
             THEN [ok |-> TRUE, eph |-> gone, ledEph |-> l]
             ELSE [ok |-> FALSE, eph |-> e, ledEph |-> l]
        ELSE IF name \in l
             THEN [ok |-> TRUE, eph |-> gone, ledEph |-> l \ {name}]
             ELSE [ok |-> FALSE, eph |-> e, ledEph |-> l]

RpcResp(op, out, val, h, a) ==
    [op |-> op, br |-> "", out |-> out, val |-> val, h |-> h, a |-> a]

\* A handler that creates its branch on `on`, reads val, and removes the
\* branch from `off`; failed: the read fails after the branch was created,
\* and cleanup says whether the branch is removed on that path.
HistoricalRpc(op, height, on, off, val, a, failed, cleanup) ==
    LET r == RollbackToHeight(eph, ledEph, height, on, op)
        rm == RemoveBranchByName(r.eph, r.ledEph, r.name, off)
    IN  /\ IF ~r.ok
           THEN /\ eph' = r.eph /\ ledEph' = r.ledEph
                /\ resp' = RpcResp(op, "err", 0, height, a)
           ELSE IF failed /\ ~cleanup
           THEN /\ eph' = r.eph /\ ledEph' = r.ledEph
                /\ resp' = RpcResp(op, "err", 0, height, a)
           ELSE /\ eph' = rm.eph /\ ledEph' = rm.ledEph
                /\ resp' = IF failed \/ ~rm.ok THEN RpcResp(op, "err", 0, height, a)
                           ELSE RpcResp(op, "ok", val, height, a)
        /\ Cardinality(DOMAIN eph' \cup ledEph') <= MaxLeaked
        /\ UNCHANGED <<store, sb, phase, lk, snap, rpc, vic>>

RpcBalance(a, bn) ==
    HistoricalRpc("balance", BlockNumberToHeight(store, bn, "bhash"), "evm", "evm",
                  Balance(store, MAIN_BRANCH_NAME, a), a, FALSE, FALSE)

RpcStorageAt(a, bn) ==
    HistoricalRpc("storage_at", BlockNumberToHeight(store, bn, "bhash"), "evm", "evm",
                  Storage(store, MAIN_BRANCH_NAME, a), a, FALSE, FALSE)

RpcTransactionCount(a, bn) ==
    HistoricalRpc("transaction_count", BlockNumberToHeight(store, bn, "blocks"),
                  "ledger", "ledger", Nonce(store, MAIN_BRANCH_NAME, a), a, FALSE, FALSE)

BlockTxCount(s, height) ==
    IF HasKey(s, MAIN_BRANCH_NAME, "blocks", height)
    THEN Len(GetByBranch(s, MAIN_BRANCH_NAME, "blocks", height).txs) ELSE 0

\* conv: whether converting the block's transactions to web3 form fails
RpcBlockByNumber(bn, conv) ==
    LET height == BlockNumberToHeight(store, bn, "bhash")
    IN  HistoricalRpc("block_by_number", height, "evm", "evm",
                      BlockTxCount(store, height), "",
                      conv /\ HasKey(store, MAIN_BRANCH_NAME, "blocks", height), TRUE)

RpcBlockTransactionCountByNumber(bn) ==
    LET height == BlockNumberToHeight(store, bn, "blocks")
    IN  HistoricalRpc("block_transaction_count_by_number", height, "ledger", "evm",
                      BlockTxCount(store, height), "", FALSE, FALSE)

RpcTransactionByBlockNumberAndIndex(bn, index, conv) ==
    LET height == BlockNumberToHeight(store, bn, "blocks")
    IN  HistoricalRpc("transaction_by_block_number_and_index", height, "ledger", "evm",
                      IF index < BlockTxCount(store, height) THEN 1 ELSE 0, "",
                      conv /\ index < BlockTxCount(store, height), FALSE)

\* Blocks of the RPC specification carry plain transfers only.
DeliverTransfer(tx) == DeliverTx(tx, [ok |-> TRUE, gas |-> 1, sw |-> 0])

\* what the executor reports for a plain transfer
TransferOutcome == [ok |-> TRUE, gas |-> 1, sw |-> 0]

\* transfers of nothing, of which the sender can pay several
LogTransfers == {tx \in Transfers : tx.value = 0}

-----------------------------------------------------------------------------

Next ==
    \/ \E p \in Proposers, t \in Timestamps : BeginBlock(p, t)
    \/ \E tx \in Txs, o \in EvmOutcomes : CheckTx(tx, o)
    \/ \E tx \in Txs, o \in EvmOutcomes : DeliverTx(tx, o)
    \/ Commit

Spec == Init /\ [][Next]_vars

NextRpc ==
    \/ \E p \in Proposers, t \in Timestamps : BeginBlock(p, t)
    \/ \E tx \in Transfers : DeliverTransfer(tx)
    \/ Commit
    \/ \E a \in Addr, bn \in BlockNumbers : RpcBalance(a, bn)
    \/ \E a \in Addr, bn \in BlockNumbers : RpcStorageAt(a, bn)
    \/ \E a \in Addr, bn \in BlockNumbers : RpcTransactionCount(a, bn)
    \/ \E bn \in BlockNumbers, conv \in BOOLEAN : RpcBlockByNumber(bn, conv)
    \/ \E bn \in BlockNumbers : RpcBlockTransactionCountByNumber(bn)
    \/ \E bn \in BlockNumbers, i \in 0..(MaxTxs - 1), conv \in BOOLEAN :
            RpcTransactionByBlockNumberAndIndex(bn, i, conv)

SpecRpc == Init /\ [][NextRpc]_vars

\* The consensus connection together with Info
NextInfo ==
    \/ \E p \in Proposers, t \in Timestamps : BeginBlock(p, t)
    \/ \E tx \in Transfers, o \in EvmOutcomes : DeliverTx(tx, o)
    \/ Commit
    \/ Info

SpecInfo == Init /\ [][NextInfo]_vars

-----------------------------------------------------------------------------
(* The handlers with their lock steps.  The consensus connection runs       *)
(* BeginBlock, DeliverTx and Commit one after the other; the mempool        *)
(* connection runs CheckTx beside it.  A write guard is taken when its lock *)
(* is free and dropped at the end of the scope that took it.                *)

Consensus == "consensus"
Mempool == "mempool"
Query == "query"

\* refresh_inner: main.write(), deliver_tx.write(), check_tx.write()
RefreshLockMain ==
    /\ lk.cons = "idle" /\ phase = "idle" /\ lk.main = "" /\ lk.readers = {}
    /\ LastBlockHeight(store, MAIN_BRANCH_NAME) < MaxHeight
    /\ lk' = [lk EXCEPT !.main = Consensus, !.cons = "refresh_main"]
    /\ UNCHANGED <<store, sb, phase, eph, ledEph, resp, snap, rpc, vic>>

RefreshLockDeliver ==
    /\ lk.cons = "refresh_main" /\ lk.deliver = ""
    /\ lk' = [lk EXCEPT !.deliver = Consensus, !.cons = "refresh_deliver"]
    /\ UNCHANGED <<store, sb, phase, eph, ledEph, resp, snap, rpc, vic>>

RefreshLockCheck ==
    /\ lk.cons = "refresh_deliver" /\ lk.check = ""
    /\ lk' = [lk EXCEPT !.check = Consensus, !.cons = "refresh_check"]
    /\ UNCHANGED <<store, sb, phase, eph, ledEph, resp, snap, rpc, vic>>

\* the body of refresh_inner; the three guards are dropped when it returns
RefreshRun(proposer, timestamp) ==
    /\ lk.cons = "refresh_check"
    /\ BeginBlockDo(proposer, timestamp)
    /\ lk' = [lk EXCEPT !.main = "", !.deliver = "", !.check = "", !.cons = "idle"]
    /\ vic' = RefreshVicinity(vic, proposer, timestamp)
    /\ UNCHANGED <<snap, rpc>>

\* App::deliver_tx: deliver_tx.write() around apply_tx
LockedDeliverTx(tx, o) ==
    /\ lk.cons = "idle" /\ lk.deliver = ""
    /\ DeliverTx(tx, o)

\* Ledger::commit: main.write(), then deliver_tx.write() in the inner scope
CommitLockMain ==
    /\ lk.cons = "idle" /\ phase = "inblock" /\ lk.main = "" /\ lk.readers = {}
    /\ lk' = [lk EXCEPT !.main = Consensus, !.cons = "commit_main"]
    /\ UNCHANGED <<store, sb, phase, eph, ledEph, resp, snap, rpc, vic>>

CommitLockDeliver ==
    /\ lk.cons = "commit_main" /\ lk.deliver = ""
    /\ lk' = [lk EXCEPT !.deliver = Consensus, !.cons = "commit_deliver"]
    /\ UNCHANGED <<store, sb, phase, eph, ledEph, resp, snap, rpc, vic>>

\* the inner scope: swap, merge, drop the DeliverTx guard
CommitMerge ==
    /\ lk.cons = "commit_deliver"
    /\ store' = SwapAndMerge(store, sb).store
    /\ sb' = SwapAndMerge(store, sb).sb
    /\ lk' = [lk EXCEPT !.deliver = "", !.cons = "commit_merged"]
    /\ UNCHANGED <<phase, eph, ledEph, resp, snap, rpc, vic>>

\* main.commit(), drop the Main guard
CommitMain ==
    LET m == StateBranchCommit(store, sb[MAIN_BRANCH_NAME])
    IN  /\ lk.cons = "commit_merged"
        /\ store' = m.store
        /\ sb' = [sb EXCEPT ![MAIN_BRANCH_NAME] = m.w]
        /\ lk' = [lk EXCEPT !.main = "", !.cons = "commit_read"]
        /\ snap' = WriteSnapshot(m.w, vic[MAIN_BRANCH_NAME])
        /\ UNCHANGED <<phase, eph, ledEph, resp, rpc, vic>>

\* App::commit after Ledger::commit: main.read() for the last block hash of
\* the answer; the read guard is dropped within the statement
CommitRead ==
    /\ lk.cons = "commit_read" /\ lk.main = ""
    /\ phase' = "idle"
    /\ resp' = [Resp("commit", MAIN_BRANCH_NAME, "ok") EXCEPT
                  !.val = LastBlockHash(store, MAIN_BRANCH_NAME)]
    /\ lk' = [lk EXCEPT !.cons = "idle"]
    /\ UNCHANGED <<store, sb, eph, ledEph, snap, rpc, vic>>

\* App::info: main.read() ...
InfoLock ==
    /\ lk.query = "idle" /\ lk.main = ""
    /\ lk' = [lk EXCEPT !.readers = @ \cup {Query}, !.query = "reading"]
    /\ UNCHANGED <<store, sb, phase, eph, ledEph, resp, snap, rpc, vic>>

\* InfoRun that leaves without dropping its read guard
InfoRunKeepsGuard ==
    /\ lk.query = "reading"
    /\ resp' = InfoResp(store)
    /\ lk' = [lk EXCEPT !.query = "idle"]
    /\ UNCHANGED <<store, sb, phase, eph, ledEph, snap, rpc, vic>>

\* ... the answer from the last block, and the read guard dropped
InfoRun ==
    /\ lk.query = "reading"
    /\ resp' = InfoResp(store)
    /\ lk' = [lk EXCEPT !.readers = @ \ {Query}, !.query = "idle"]
    /\ UNCHANGED <<store, sb, phase, eph, ledEph, snap, rpc, vic>>

\* App::check_tx: check_tx.write() around apply_tx
CheckTxLock ==
    /\ lk.mem = "idle" /\ lk.check = ""
    /\ lk' = [lk EXCEPT !.check = Mempool, !.mem = "locked"]
    /\ UNCHANGED <<store, sb, phase, eph, ledEph, resp, snap, rpc, vic>>

CheckTxRun(tx, o) ==
    /\ lk.mem = "locked"
    /\ ApplyTxDo(CHECK_TX_BRANCH_NAME, tx, o)
    /\ lk' = [lk EXCEPT !.check = "", !.mem = "idle"]
    /\ UNCHANGED <<snap, rpc, vic>>

NextLock ==
    \/ RefreshLockMain
    \/ RefreshLockDeliver
    \/ RefreshLockCheck
    \/ \E p \in Proposers, t \in Timestamps : RefreshRun(p, t)
    \/ \E tx \in Transfers, o \in EvmOutcomes : LockedDeliverTx(tx, o)
    \/ CommitLockMain
    \/ CommitLockDeliver
    \/ CommitMerge
    \/ CommitMain
    \/ CommitRead
    \/ CheckTxLock
    \/ \E tx \in Transfers, o \in EvmOutcomes : CheckTxRun(tx, o)

SpecLock == Init /\ [][NextLock]_vars

\* The three connections with all their guards, on blocks of plain
\* transfers.  A handler that has started takes its next step: a thread
\* runs on, and the consensus connection gets a lock it waits for when that
\* lock comes free again and again (the locks are eventually fair).
\* CheckTxLock while the block in process on CheckTx takes another
\* transaction
CheckTxStart ==
    /\ Len(sb[CHECK_TX_BRANCH_NAME].txh) < MaxTxs
    /\ CheckTxLock

NextGuards ==
    \/ RefreshLockMain
    \/ RefreshLockDeliver
    \/ RefreshLockCheck
    \/ \E p \in Proposers, t \in Timestamps : RefreshRun(p, t)
    \/ \E tx \in LogTransfers : LockedDeliverTx(tx, TransferOutcome)
    \/ CommitLockMain
    \/ CommitLockDeliver
    \/ CommitMerge
    \/ CommitMain
    \/ CommitRead
    \/ CheckTxStart
    \/ \E tx \in LogTransfers : CheckTxRun(tx, TransferOutcome)
    \/ InfoLock
    \/ InfoRun

\* the steps of a handler of the consensus connection after its first,
\* but for the body of refresh_inner
ConsensusStep ==
    \/ RefreshLockDeliver
    \/ RefreshLockCheck
    \/ CommitLockDeliver
    \/ CommitMerge
    \/ CommitMain
    \/ CommitRead

MempoolStep == \E tx \in LogTransfers : CheckTxRun(tx, TransferOutcome)

SpecGuards ==
    /\ Init /\ [][NextGuards]_vars
    /\ SF_vars(ConsensusStep)
    /\ WF_vars(MempoolStep)
    /\ WF_vars(InfoRun)

-----------------------------------------------------------------------------
(* The ABCI handlers with their responses.  The bytes of a request either   *)
(* do not decode ("malformed"), decode to a Tx that is not valid in ABCI    *)
(* ("invalid"), or decode to an EVM transaction ("evm").  A CheckTx request *)
(* also carries its type (0: New, 1: Recheck).  A message stands for the    *)
(* text an error is built from, without the source position the error       *)
(* library adds to it.                                                      *)

NoMessage == <<>>

InvalidNonce(tx_nonce, system_nonce) ==
    <<"Invalid nonce: ", tx_nonce, ", should be: ", system_nonce>>

InsufficientBalance(needed_amount, total) ==
    <<"Insufficient balance, needed: ", needed_amount, ", total: ", total>>

\* The message of the error pre_exec returns
PreExecError(s, b, tx) ==
    IF ~CheckGasPrice(tx) THEN <<"Gas price is too low">>
    ELSE IF RecoverSigner(tx) = NoSigner THEN NoMessage
    ELSE IF ~CheckNonce(s, b, tx)
         THEN InvalidNonce(tx.nonce, Nonce(s, b, RecoverSigner(tx)))
    ELSE IF tx.gas_limit = 0 \/ NeededAmount(tx) = -1 THEN NoMessage
    ELSE InsufficientBalance(NeededAmount(tx), Balance(s, b, RecoverSigner(tx)))

\* The error of Tx::apply: None when pre_exec failed, whatever its error
\* was, and the ExecRet of a failed execution otherwise
TxApplyError(s, b, tx, o) ==
    IF PreExec(s, b, tx) # "ok" THEN <<"None">>
    ELSE <<"Some", ExecRet(tx, o)>>

\* The message of the error apply_tx returns: that of the store when the
\* version cannot be created, else the ExecRet as a string, or the empty
\* string for None
ApplyTxError(s, w, b, tx, o) ==
    IF VersionCreatedOnBranch(s, b, TxVersion(w)) THEN <<"version exists">>
    ELSE LET e == TxApplyError(VersionCreateByBranch(s, b, TxVersion(w)), b, tx, o)
         IN  IF e = <<"None">> THEN NoMessage ELSE <<"ExecRet", e[2]>>

TxBytes ==
    [kind : {"malformed", "invalid"}, tx : {BaseTx}] \cup [kind : {"evm"}, tx : Txs]

CheckTxTypes == {0, 1}

AbciResp(op, br, out, code, log) ==
    [op |-> op, br |-> br, out |-> out, val |-> 0, h |-> 0, a |-> "",
     code |-> code, log |-> log]

\* A handler that answers without taking a lock
AbciAnswer(op, code, log) ==
    /\ resp' = AbciResp(op, "", "", code, log)
    /\ UNCHANGED <<store, sb, phase, eph, ledEph, lk, snap, rpc, vic>>

\* apply_tx under the handler's write lock, and the response made of its
\* result
AbciApplyTx(op, b, tx, o) ==
    LET r == ApplyTxResult(store, sb[b], b, tx, o)
    IN  /\ BranchExists(store, b)
        /\ Len(sb[b].txh) < MaxTxs
        /\ store' = r.store
        /\ sb' = [sb EXCEPT ![b] = r.w]
        /\ resp' = IF r.out = "ok" THEN AbciResp(op, b, r.out, 0, NoMessage)
                   ELSE AbciResp(op, b, r.out, 1, ApplyTxError(store, sb[b], b, tx, o))
        /\ UNCHANGED <<phase, eph, ledEph, lk, snap, rpc, vic>>

\* check_tx without the early return for a recheck
AppCheckTxAnyType(type, bytes, o) ==
    IF bytes.kind = "malformed" THEN AbciAnswer("check_tx", 1, <<"Invalid format">>)
    ELSE IF bytes.kind = "invalid"
         THEN AbciAnswer("check_tx", 1, <<"Should not appear in ABCI">>)
    ELSE AbciApplyTx("check_tx", CHECK_TX_BRANCH_NAME, bytes.tx, o)

AppCheckTx(type, bytes, o) ==
    IF type # 0 THEN AbciAnswer("check_tx", 0, NoMessage)
    ELSE IF bytes.kind = "malformed" THEN AbciAnswer("check_tx", 1, <<"Invalid format">>)
    ELSE IF bytes.kind = "invalid"
         THEN AbciAnswer("check_tx", 1, <<"Should not appear in ABCI">>)
    ELSE AbciApplyTx("check_tx", CHECK_TX_BRANCH_NAME, bytes.tx, o)

AppDeliverTx(bytes, o) ==
    /\ phase = "inblock"
    /\ IF bytes.kind = "malformed"
       THEN AbciAnswer("deliver_tx", 1, <<"Invalid data format">>)
       ELSE IF bytes.kind = "invalid"
            THEN AbciAnswer("deliver_tx", 1, <<"Should not appear in ABCI">>)
       ELSE AbciApplyTx("deliver_tx", DELIVER_TX_BRANCH_NAME, bytes.tx, o)

\* The executor's outcome matters only for bytes that reach it
OutcomesFor(type, bytes) ==
    IF type = 0 /\ bytes.kind = "evm" THEN EvmOutcomes
    ELSE {[ok |-> TRUE, gas |-> 1, sw |-> 0]}

NextAbci ==
    \/ \E p \in Proposers, t \in Timestamps : BeginBlock(p, t)
    \/ \E type \in CheckTxTypes, bytes \in TxBytes :
            \E o \in OutcomesFor(type, bytes) : AppCheckTx(type, bytes, o)
    \/ \E bytes \in TxBytes :
            \E o \in OutcomesFor(0, bytes) : AppDeliverTx(bytes, o)
    \/ Commit

SpecAbci == Init /\ [][NextAbci]_vars

-----------------------------------------------------------------------------
(* Crash and restart.  The store and the snapshot file outlive the process  *)
(* (phase "down"); the wrappers in memory do not.  Ledger::commit can stop  *)
(* after the swap and the merge ("merged") or after Main's commit inserted  *)
(* the block and before the snapshot file is written ("inserted"): by a     *)
(* crash of the process, or at "inserted" by write_snapshot returning an    *)
(* error, on which App::commit panics.  A write that fails leaves the file  *)
(* as it was.                                                               *)

CommitStops == {"merged", "inserted"}

\* Ledger::commit up to the point where it stops
LedgerCommitUpTo(s, wrappers, at) ==
    IF at = "merged" THEN SwapAndMerge(s, wrappers) ELSE LedgerCommit(s, wrappers)

\* The process dies outside Ledger::commit
Crash ==
    /\ phase \in {"idle", "inblock"}
    /\ phase' = "down"
    /\ resp' = Resp("crash", "", "")
    /\ UNCHANGED <<store, sb, eph, ledEph, lk, snap, rpc, vic>>

\* The process dies inside Ledger::commit
CommitCrash(at) ==
    /\ phase = "inblock"
    /\ store' = LedgerCommitUpTo(store, sb, at).store
    /\ sb' = LedgerCommitUpTo(store, sb, at).sb
    /\ phase' = "down"
    /\ resp' = Resp("crash", MAIN_BRANCH_NAME, at)
    /\ UNCHANGED <<eph, ledEph, lk, snap, rpc, vic>>

\* Ledger::commit returns the error of write_snapshot; App::commit panics
CommitError ==
    /\ phase = "inblock"
    /\ store' = LedgerCommitUpTo(store, sb, "inserted").store
    /\ sb' = LedgerCommitUpTo(store, sb, "inserted").sb
    /\ phase' = "down"
    /\ resp' = Resp("commit", MAIN_BRANCH_NAME, "error")
    /\ UNCHANGED <<eph, ledEph, lk, snap, rpc, vic>>

\* clean_up on Main: pop the latest version when Version(last + 1, 0) exists
CleanUp(s) ==
    IF VersionCreatedOnBranch(s, MAIN_BRANCH_NAME,
           VsVersion(1 + LastBlockHeight(s, MAIN_BRANCH_NAME), 0))
    THEN VersionPopByBranch(s, MAIN_BRANCH_NAME)
    ELSE s

\* loading_refresh: clean_up, refresh_branches, no prepare_next_block
LoadingRefresh(s) == RefreshBranches(CleanUp(s))

\* App::load_or_create: the ledger of the snapshot file when there is one,
\* else a new ledger on a new store state
Restart ==
    /\ phase = "down"
    /\ phase' = "idle"
    /\ IF snap = NoSnapshot
       THEN /\ store' = LedgerNew
            /\ sb' = [b \in DOMAIN sb |-> StateBranchNew]
            /\ eph' = EmptyMap
            /\ ledEph' = {}
            /\ resp' = Resp("restart", "", "created")
            /\ vic' = [b \in DOMAIN vic |-> DefaultVicinity]
       ELSE /\ store' = LoadingRefresh(store)
            /\ sb' = [b \in DOMAIN sb |-> snap[1]]
            /\ resp' = Resp("restart", "", "loaded")
            /\ vic' = [b \in DOMAIN vic |-> snap[2]]
            /\ UNCHANGED <<eph, ledEph>>
    /\ rpc' = RpcIdle
    /\ UNCHANGED <<lk, snap>>

NextCrash ==
    \/ \E p \in Proposers, t \in Timestamps : BeginBlock(p, t)
    \/ \E tx \in Transfers, o \in EvmOutcomes : DeliverTx(tx, o)
    \/ Commit
    \/ Crash
    \/ \E at \in CommitStops : CommitCrash(at)
    \/ CommitError
    \/ Restart

SpecCrash == Init /\ [][NextCrash]_vars

-----------------------------------------------------------------------------
(* BeginBlock with the proposer address as the bytes the consensus engine   *)
(* sends.  prepare_next_block on Main creates the block's version and then *)
(* maps the proposer to the EVM coinbase; a panic there ends the process.   *)

H160Len == 20

\* Proposer addresses: byte i of an address is i
ProposerBytes ==
    {[i \in 1..n |-> i] : n \in {0, H160Len - 1, H160Len, H160Len + 1}}

\* tm_proposer_to_evm_format: copy_from_slice of the first min(LEN, len)
\* bytes into a buffer of LEN bytes, which panics unless the two lengths
\* are equal
TmProposerToEvmFormat(addr) ==
    LET n == IF H160Len <= Len(addr) THEN H160Len ELSE Len(addr)
    IN  IF n = H160Len THEN [ok |-> TRUE, h160 |-> SubSeq(addr, 1, n)]
        ELSE [ok |-> FALSE, h160 |-> <<>>]

BeginBlockFrom(addr, timestamp) ==
    LET m == PrepareNextBlock(RefreshBranches(store), MAIN_BRANCH_NAME,
                              addr, timestamp)
    IN  IF TmProposerToEvmFormat(addr).ok
        THEN BeginBlock(addr, timestamp)
        ELSE /\ phase = "idle"
             /\ LastBlockHeight(store, MAIN_BRANCH_NAME) < MaxHeight
             /\ ~PrepareFails(RefreshBranches(store), MAIN_BRANCH_NAME)
             /\ store' = m.store
             /\ sb' = [sb EXCEPT ![MAIN_BRANCH_NAME] = m.w]
             /\ phase' = "down"
             /\ resp' = Resp("begin_block", "", "panic")
             /\ vic' = CloneVicinity(vic)
             /\ UNCHANGED <<eph, ledEph, lk, snap, rpc>>

NextProposer ==
    \/ \E addr \in ProposerBytes, t \in Timestamps : BeginBlockFrom(addr, t)
    \/ \E tx \in Transfers, o \in EvmOutcomes : DeliverTx(tx, o)
    \/ Commit
    \/ Restart

SpecProposer == Init /\ [][NextProposer]_vars

-----------------------------------------------------------------------------
(* eth_call and eth_estimateGas: State::contract_handle.  The handler runs  *)
(* on a thread of the RPC server; snapshot_at_height takes the value of the *)
(* process-wide counter TMP_ID through get_mut, which hands out a copy of   *)
(* the value and stores the copy back when the guard is dropped at the end  *)
(* of the function.  The call is modelled by what it reads: the balance of  *)
(* an address, through the branch the backend is built on.                  *)

MaxCalls == 2           \* values the counter may hand out

CallPrefix == "call_contract"

\* branch_tmp and ver_tmp of snapshot_at_height
SnapshotName(prefix, height, id) == <<prefix, height, id>>

\* the height check of snapshot_at_height that lets every height pass
SnapshotHeightAny(height) == TRUE

SnapshotHeightOk(height) == height > 0

\* The gas and gas_price of a CallRequest: absent (None) or a 256-bit value
U64Bits == 4
U64_MAX == 2 ^ U64Bits - 1
None == -1

GasValues == {None, 0, 1, U64_MAX + 1}

CallRequests == [gas : GasValues, gas_price : GasValues]

\* alt!(v > U64_MAX, u64::MAX, v.as_u64())
ClampU64(v) == IF v > U64_MAX THEN U64_MAX ELSE v

\* gas.checked_div(gas_price): nothing when the divisor is 0
CheckedDiv(a, b) == IF b = 0 THEN None ELSE a \div b

\* The gas_limit of contract_handle: gas (u64::MAX when absent) and
\* gas_price (1 when absent) clamped to 64 bits, then divided; the unwrap
\* of the quotient panics when there is none
CallGasLimit(req) ==
    LET gas == IF req.gas = None THEN U64_MAX ELSE ClampU64(req.gas)
        gas_price == ClampU64(IF req.gas_price = None THEN 1 ELSE req.gas_price)
        q == CheckedDiv(gas, gas_price)
    IN  [ok |-> q # None, gas_limit |-> q]

\* contract_handle up to get_mut in snapshot_at_height
CallEnter(t, a, bn) ==
    LET height == BlockNumberToHeight(store, bn, "bhash")
    IN  /\ rpc.calls[t].pc = "idle"
        /\ rpc.tmp_id < MaxCalls
        /\ \E req \in CallRequests :
              IF ~CallGasLimit(req).ok
              THEN /\ resp' = RpcResp("call", "panic", 0, 0, a)
                   /\ UNCHANGED rpc
              ELSE IF SnapshotHeightOk(height)
              THEN /\ rpc' = [rpc EXCEPT !.calls[t] =
                                [pc |-> "named", h |-> height, a |-> a, id |-> rpc.tmp_id]]
                   /\ UNCHANGED resp
              ELSE /\ resp' = RpcResp("call", "err", 0, height, a)
                   /\ UNCHANGED rpc
        /\ UNCHANGED <<store, sb, phase, eph, ledEph, lk, snap, vic>>

\* the rest of snapshot_at_height: the branch and its version are created
\* under the name made of the copy, the copy plus one is stored back
CallCreate(t) ==
    LET c == rpc.calls[t]
        name == SnapshotName(CallPrefix, c.h, c.id)
    IN  /\ c.pc = "named"
        /\ IF name \in DOMAIN eph
           THEN /\ rpc' = [rpc EXCEPT !.tmp_id = c.id + 1, !.calls[t] = NoCall]
                /\ resp' = RpcResp("call", "err", 0, c.h, c.a)
                /\ UNCHANGED eph
           ELSE /\ rpc' = [rpc EXCEPT !.tmp_id = c.id + 1, !.calls[t].pc = "created"]
                /\ eph' = Put(eph, name, <<name>>)
                /\ UNCHANGED resp
        /\ UNCHANGED <<store, sb, phase, ledEph, lk, snap, vic>>

\* The branch the backend of contract_handle reads through: the branch_name
\* argument, for which call and estimate_gas pass Main
CallBackendBranch == MAIN_BRANCH_NAME

\* the executor run and branch_remove of the call's branch
CallRun(t) ==
    LET c == rpc.calls[t]
        name == SnapshotName(CallPrefix, c.h, c.id)
    IN  /\ c.pc = "created"
        /\ rpc' = [rpc EXCEPT !.calls[t] = NoCall]
        /\ IF name \in DOMAIN eph
           THEN /\ eph' = [x \in DOMAIN eph \ {name} |-> eph[x]]
                /\ resp' = RpcResp("call", "ok",
                                   Balance(store, CallBackendBranch, c.a), c.h, c.a)
           ELSE /\ resp' = RpcResp("call", "err", 0, c.h, c.a)
                /\ UNCHANGED eph
        /\ UNCHANGED <<store, sb, phase, ledEph, lk, snap, vic>>

\* The blocks of the call specification carry transfers of TransferValue to
\* B, and the calls ask for B's balance.
CallTransfers == {tx \in Transfers : tx.value = TransferValue}

CallAddrs == {"B"}

NextCall ==
    \/ \E p \in Proposers, t \in Timestamps : BeginBlock(p, t)
    \/ \E tx \in CallTransfers : DeliverTransfer(tx)
    \/ Commit
    \/ \E a \in CallAddrs, bn \in BlockNumbers : RpcBalance(a, bn)
    \/ \E t \in Threads, a \in CallAddrs, bn \in BlockNumbers : CallEnter(t, a, bn)
    \/ \E t \in Threads : CallCreate(t)
    \/ \E t \in Threads : CallRun(t)

SpecCall == Init /\ [][NextCall]_vars

-----------------------------------------------------------------------------
(* The consensus handlers next to the historical handlers, among them the  *)
(* ones that leave their branch behind; blocks carry transfers of          *)
(* TransferValue and the handlers ask for B.                               *)

NextLeak ==
    \/ \E p \in Proposers, t \in Timestamps : BeginBlock(p, t)
    \/ \E tx \in CallTransfers : DeliverTransfer(tx)
    \/ Commit
    \/ \E a \in CallAddrs, bn \in BlockNumbers : RpcBalance(a, bn)
    \/ \E a \in CallAddrs, bn \in BlockNumbers : RpcStorageAt(a, bn)
    \/ \E a \in CallAddrs, bn \in BlockNumbers : RpcTransactionCount(a, bn)
    \/ \E bn \in BlockNumbers, conv \in BOOLEAN : RpcBlockByNumber(bn, conv)
    \/ \E bn \in BlockNumbers : RpcBlockTransactionCountByNumber(bn)
    \/ \E bn \in BlockNumbers, i \in 0..(MaxTxs - 1), conv \in BOOLEAN :
            RpcTransactionByBlockNumberAndIndex(bn, i, conv)

SpecLeak == Init /\ [][NextLeak]_vars

-----------------------------------------------------------------------------
(* Blocks with different timestamps: what the vicinity of each wrapper     *)
(* holds while the transactions of a block run.                            *)

BlockTimestamps == {7, 8}

NextVicinity ==
    \/ \E p \in Proposers, t \in BlockTimestamps : BeginBlock(p, t)
    \/ \E tx \in CallTransfers : CheckTx(tx, [ok |-> TRUE, gas |-> 1, sw |-> 0])
    \/ \E tx \in CallTransfers : DeliverTransfer(tx)
    \/ Commit

SpecVicinity == Init /\ [][NextVicinity]_vars

-----------------------------------------------------------------------------
(* Blocks whose transactions emit logs *)

LogOutcomes ==
    { [ok |-> TRUE, gas |-> 1, sw |-> 0, logs |-> <<"log1", "log2">>],
      [ok |-> TRUE, gas |-> 1, sw |-> 0, logs |-> <<>>] }

NextLogs ==
    \/ \E p \in Proposers, t \in BlockTimestamps : BeginBlock(p, t)
    \/ \E tx \in LogTransfers, o \in LogOutcomes : DeliverTx(tx, o)
    \/ Commit

SpecLogs == Init /\ [][NextLogs]_vars

-----------------------------------------------------------------------------
(* transaction_count served by two threads.  The handler holds no lock      *)
(* between rollback_to_height and remove_branch_by_name, so another         *)
(* invocation can run between the two.                                      *)

\* transaction_count up to the return of rollback_to_height
TransactionCountEnter(t, a, bn) ==
    LET height == BlockNumberToHeight(store, bn, "blocks")
        r == RollbackToHeight(eph, ledEph, height, "ledger", "transaction_count")
    IN  /\ rpc.calls[t].pc = "idle"
        /\ eph' = r.eph
        /\ ledEph' = r.ledEph
        /\ IF r.ok
           THEN /\ rpc' = [rpc EXCEPT !.calls[t] =
                             [pc |-> "transaction_count", h |-> height, a |-> a, id |-> 0]]
                /\ UNCHANGED resp
           ELSE /\ resp' = RpcResp("transaction_count", "err", 0, height, a)
                /\ UNCHANGED rpc
        /\ UNCHANGED <<store, sb, phase, lk, snap, vic>>

\* the read of the nonce and remove_branch_by_name
TransactionCountReturn(t) ==
    LET c == rpc.calls[t]
        rm == RemoveBranchByName(eph, ledEph, EphName("transaction_count", c.h), "ledger")
    IN  /\ c.pc = "transaction_count"
        /\ rpc' = [rpc EXCEPT !.calls[t] = NoCall]
        /\ eph' = rm.eph
        /\ ledEph' = rm.ledEph
        /\ resp' = IF rm.ok
                   THEN RpcResp("transaction_count", "ok",
                                Nonce(store, MAIN_BRANCH_NAME, c.a), c.h, c.a)
                   ELSE RpcResp("transaction_count", "err", 0, c.h, c.a)
        /\ UNCHANGED <<store, sb, phase, lk, snap, vic>>

NextCount ==
    \/ \E p \in Proposers, t \in Timestamps : BeginBlock(p, t)
    \/ \E tx \in CallTransfers : DeliverTransfer(tx)
    \/ Commit
    \/ \E t \in Threads, a \in CallAddrs, bn \in BlockNumbers :
            TransactionCountEnter(t, a, bn)
    \/ \E t \in Threads : TransactionCountReturn(t)

SpecCount == Init /\ [][NextCount]_vars

-----------------------------------------------------------------------------
(* Properties *)

ApplyStep == resp'.op = "apply_tx"

Other(b) == IF b = DELIVER_TX_BRANCH_NAME THEN CHECK_TX_BRANCH_NAME
            ELSE DELIVER_TX_BRANCH_NAME

Fee(tx, o) == GasUsed(tx, o) * tx.gas_price

\* C1: an apply_tx on DeliverTx or CheckTx, whatever its outcome, leaves
\* every account and storage read on Main and on the other transient branch
\* unchanged.
C1_BranchIsolation ==
    [][ApplyStep =>
        /\ Reads(store', MAIN_BRANCH_NAME) = Reads(store, MAIN_BRANCH_NAME)
        /\ BranchExists(store, Other(resp'.br)) =>
              /\ BranchExists(store', Other(resp'.br))
              /\ Reads(store', Other(resp'.br)) = Reads(store, Other(resp'.br))]_vars

\* DeliverTx applied a transfer and was charged, and neither Main nor
\* CheckTx sees it.
C1_Witness ==
    /\ resp.op = "apply_tx" /\ resp.br = DELIVER_TX_BRANCH_NAME /\ resp.out = "ok"
    /\ Balance(store, DELIVER_TX_BRANCH_NAME, "B") = TransferValue
    /\ Reads(store, MAIN_BRANCH_NAME) = Reads(store, CHECK_TX_BRANCH_NAME)
    /\ Balance(store, MAIN_BRANCH_NAME, "A") = GenesisBalance

\* C2: after Ledger::commit every account and storage read on Main equals
\* the read on DeliverTx just before, and the committed block carries
\* exactly the txs and receipts DeliverTx accumulated (receipts with the
\* block gas filled in).
C2_CommitPublishesDeliverTx ==
    [][resp'.op = "commit" =>
        LET d == sb[DELIVER_TX_BRANCH_NAME]
            blk == LastBlock(store', MAIN_BRANCH_NAME)
        IN  /\ Reads(store', MAIN_BRANCH_NAME) = Reads(store, DELIVER_TX_BRANCH_NAME)
            /\ blk.height = d.blk.height
            /\ blk.txs = d.blk.txs
            /\ DOMAIN blk.receipts = DOMAIN d.blk.receipts
            /\ \A k \in DOMAIN blk.receipts :
                  [blk.receipts[k] EXCEPT !.block_gas_used = 0] = d.blk.receipts[k]]_vars

\* A block with a transaction was committed while CheckTx holds writes of
\* its own that Main does not show.
C2_Witness ==
    /\ resp.op = "commit"
    /\ LastBlock(store, MAIN_BRANCH_NAME).txs # <<>>
    /\ BranchExists(store, CHECK_TX_BRANCH_NAME)
    /\ sb[CHECK_TX_BRANCH_NAME].txh # <<>>
    /\ Reads(store, CHECK_TX_BRANCH_NAME) # Reads(store, MAIN_BRANCH_NAME)

\* C3: a preflight rejection leaves the branch's versions and every write
\* under them, tx_hashes_in_process and the block in process as they were.
C3_RejectionChangesNothing ==
    [][(ApplyStep /\ resp'.out = "rejected") =>
          /\ store' = store
          /\ sb' = sb]_vars

\* A rejection on a branch that already applied a transaction in this block.
C3_Witness ==
    /\ resp.op = "apply_tx" /\ resp.out = "rejected"
    /\ sb[resp.br].txh # <<>>
    /\ Len(store[resp.br].own) = 2

\* C4: an execution failure after preflight debits the sender by exactly
\* gas_used * gas_price and changes no other balance, nonce or storage cell.
C4_RevertChargesFeeOnly ==
    [][(ApplyStep /\ resp'.out = "reverted") =>
          \A tx \in Txs, o \in EvmOutcomes :
             ApplyTx(resp'.br, tx, o) =>
                LET b == resp'.br
                IN  /\ Balance(store', b, tx.from)
                          = Balance(store, b, tx.from) - Fee(tx, o)
                    /\ Nonce(store', b, tx.from) = Nonce(store, b, tx.from)
                    /\ \A a \in Addr \ {tx.from} :
                          Account(store', b, a) = Account(store, b, a)
                    /\ \A a \in Addr : Storage(store', b, a) = Storage(store, b, a)]_vars

\* A reverted transaction of A on DeliverTx, charged the fee of the whole
\* gas limit.
C4_Witness ==
    /\ resp.op = "apply_tx" /\ resp.out = "reverted" /\ resp.br = DELIVER_TX_BRANCH_NAME
    /\ Balance(store, DELIVER_TX_BRANCH_NAME, "A")
          = GenesisBalance - MaxGasLimit * GAS_PRICE_MIN
    /\ Nonce(store, DELIVER_TX_BRANCH_NAME, "A") = 0

\* C5: a successful call from A to B # A with value v leaves
\* balance(A) = balance(A) - v - gas_used * gas_price and
\* balance(B) = balance(B) + v on the branch.
C5_TransferBalances ==
    [][(ApplyStep /\ resp'.out = "ok") =>
          \A tx \in Txs, o \in EvmOutcomes :
             (ApplyTx(resp'.br, tx, o) /\ tx.from # tx.to) =>
                LET b == resp'.br
                IN  /\ Balance(store', b, tx.from)
                          = Balance(store, b, tx.from) - tx.value - Fee(tx, o)
                    /\ Balance(store', b, tx.to)
                          = Balance(store, b, tx.to) + tx.value]_vars

\* A transfer of TransferValue from A reached B on CheckTx.
C5_Witness ==
    /\ resp.op = "apply_tx" /\ resp.out = "ok" /\ resp.br = CHECK_TX_BRANCH_NAME
    /\ Balance(store, CHECK_TX_BRANCH_NAME, "B") = TransferValue
    /\ Balance(store, CHECK_TX_BRANCH_NAME, "A")
          = GenesisBalance - TransferValue - GAS_PRICE_MIN

\* C6 as stated: whatever step is taken, no nonce read on a branch that
\* exists before and after the step is lower after it.
C6_NoncesNeverDecrease ==
    [][\A b \in DOMAIN store \cap DOMAIN store', a \in Addr :
          Nonce(store', b, a) >= Nonce(store, b, a)]_vars

\* C6 amended: apply_tx raises the sender's nonce on its branch by exactly
\* one when it succeeds and leaves it when it returns an error; BeginBlock
\* recreates DeliverTx and CheckTx from Main, so their nonces become Main's;
\* Commit sets Main's nonces to those of DeliverTx.
C6_NonceSteps ==
    [][/\ (ApplyStep /\ resp'.out \in {"rejected", "version"}) =>
             \A a \in Addr : Nonce(store', resp'.br, a) = Nonce(store, resp'.br, a)
       /\ (ApplyStep /\ resp'.out \in {"ok", "reverted"}) =>
             \A tx \in Txs, o \in EvmOutcomes :
                ApplyTx(resp'.br, tx, o) =>
                   Nonce(store', resp'.br, tx.from)
                      = Nonce(store, resp'.br, tx.from)
                           + (IF resp'.out = "ok" THEN 1 ELSE 0)
       /\ resp'.op = "begin_block" =>
             \A b \in Transient, a \in Addr :
                Nonce(store', b, a) = Nonce(store, MAIN_BRANCH_NAME, a)
       /\ resp'.op = "commit" =>
             \A a \in Addr :
                Nonce(store', MAIN_BRANCH_NAME, a)
                   = Nonce(store, DELIVER_TX_BRANCH_NAME, a)]_vars

\* The second successful transaction of A on CheckTx brought its nonce to 2
\* while Main still reads 0.
C6_Witness ==
    /\ resp.op = "apply_tx" /\ resp.out = "ok" /\ resp.br = CHECK_TX_BRANCH_NAME
    /\ Nonce(store, CHECK_TX_BRANCH_NAME, "A") = 2
    /\ Nonce(store, MAIN_BRANCH_NAME, "A") = 0

\* The balance a had on Main at the end of block h: the last write of a's
\* account among Main's versions up to the one that holds block h.
BalanceAtEndOfBlock(s, h, a) ==
    LET vs == AllVers(s, MAIN_BRANCH_NAME)
        pre == SubSeq(vs, 1, LastWrite(vs, "blocks", h))
        i == LastWrite(pre, "acct", a)
    IN  IF i = 0 THEN 0 ELSE pre[i].acct[a].balance

\* C7: the balance RPC at a committed height h answers with the balance the
\* address had on Main at the end of block h.
C7_BalanceAtHeight ==
    (/\ resp.op = "balance" /\ resp.out = "ok"
     /\ HasKey(store, MAIN_BRANCH_NAME, "blocks", resp.h))
       => resp.val = BalanceAtEndOfBlock(store, resp.h, resp.a)

RpcOps ==
    {"balance", "storage_at", "transaction_count", "block_by_number",
     "block_transaction_count_by_number", "transaction_by_block_number_and_index"}

\* C8: when a historical RPC handler has returned, with a result or with an
\* error, no branch named with its prefix exists on any collection.
C8_NoBranchLeftBehind ==
    resp.op \in RpcOps =>
       \A n \in DOMAIN eph \cup ledEph : n[1] # resp.op

\* C9: after an apply_tx that failed in execution, the block in process of
\* that branch holds a receipt with status_code false and no logs.
C9_FailedTxHasReceipt ==
    (resp.op = "apply_tx" /\ resp.out = "reverted") =>
       \E k \in DOMAIN sb[resp.br].blk.receipts :
          /\ ~sb[resp.br].blk.receipts[k].status_code
          /\ sb[resp.br].blk.receipts[k].logs = <<>>

\* C10 as stated: after an apply_tx that failed in execution, the version
\* created for the transaction is still the latest of the branch and the
\* sender's debited account is written under it.
C10_VersionKept ==
    (resp.op = "apply_tx" /\ resp.out = "reverted") =>
       LET own == store[resp.br].own
       IN  /\ own # <<>>
           /\ own[Len(own)].name = TxVersion(sb[resp.br])
           /\ own[Len(own)].acct # EmptyMap

VersionNames(vs) == [i \in 1..Len(vs) |-> vs[i].name]

\* C10 amended: an apply_tx that fails in execution pops the version created
\* for the transaction, so the branch keeps the versions it had (or, if it
\* had none of its own, gets Version(0, 0)), and the sender's account with
\* the fee debited is written under the latest of them.
C10_VersionPoppedFeeKept ==
    [][(ApplyStep /\ resp'.out = "reverted") =>
          \A tx \in Txs, o \in EvmOutcomes :
             ApplyTx(resp'.br, tx, o) =>
                LET b == resp'.br
                    own == store'[b].own
                IN  /\ ~VersionCreatedOnBranch(store', b, TxVersion(sb[b]))
                    /\ VersionNames(own)
                          = IF store[b].own = <<>> THEN <<VsVersion(0, 0)>>
                            ELSE VersionNames(store[b].own)
                    /\ tx.from \in DOMAIN own[Len(own)].acct
                    /\ own[Len(own)].acct[tx.from].balance
                          = Balance(store, b, tx.from) - Fee(tx, o)]_vars

\* A failed transaction on a CheckTx branch without versions of its own:
\* the fee debit sits under Version(0, 0).
C10_Witness ==
    /\ resp.op = "apply_tx" /\ resp.out = "reverted" /\ resp.br = CHECK_TX_BRANCH_NAME
    /\ VersionNames(store[CHECK_TX_BRANCH_NAME].own) = <<VsVersion(0, 0)>>
    /\ "A" \in DOMAIN store[CHECK_TX_BRANCH_NAME].own[1].acct

\* The heights under which Main holds a block, and the block held under one.
CommittedHeights == KeysOf(store, MAIN_BRANCH_NAME, "blocks")

CommittedBlock(h) == GetByBranch(store, MAIN_BRANCH_NAME, "blocks", h)

\* How many versions of Main carry a write of block h.
BlockWrites(h) ==
    Cardinality({i \in 1..Len(AllVers(store, MAIN_BRANCH_NAME)) :
                    h \in DOMAIN AllVers(store, MAIN_BRANCH_NAME)[i].blocks})

\* C11: the blocks committed on Main have the heights 1..n, each written
\* once and stored under its own height; the block-hash index has the same
\* keys and holds each block's header hash; prev_hash of block h is the
\* header hash of block h - 1, and empty for block 1.
C11_BlockChain ==
    /\ CommittedHeights = 1..LastBlockHeight(store, MAIN_BRANCH_NAME)
    /\ KeysOf(store, MAIN_BRANCH_NAME, "bhash") = CommittedHeights
    /\ \A h \in CommittedHeights :
          /\ CommittedBlock(h).height = h
          /\ BlockWrites(h) = 1
          /\ GetByBranch(store, MAIN_BRANCH_NAME, "bhash", h) = CommittedBlock(h).header_hash
          /\ CommittedBlock(h).prev_hash
                = IF h = 1 THEN NoHash ELSE CommittedBlock(h - 1).header_hash

\* Two blocks are committed, the second one with a transaction.
C11_Witness ==
    /\ resp.op = "commit"
    /\ CommittedHeights = {1, 2}
    /\ CommittedBlock(2).txs # <<>>
    /\ CommittedBlock(2).prev_hash # NoHash

\* C12: the header hash stored with a committed block is the hash of
\* (height, proposer, timestamp, merkle root, prev_hash, receipts) of the
\* header as stored, and is the same whatever the block's txs list holds.
C12_HeaderHash ==
    \A h \in CommittedHeights :
       /\ CommittedBlock(h).header_hash = BlockHeaderHash(CommittedBlock(h))
       /\ CommittedBlock(h).header_hash
             = BlockHeaderHash([CommittedBlock(h) EXCEPT !.txs = <<>>])
       /\ \A g \in CommittedHeights :
             BlockHeaderHash(CommittedBlock(g)) = BlockHeaderHash(CommittedBlock(h))
                => CommittedBlock(g).header_hash = CommittedBlock(h).header_hash

\* A committed block whose receipts carry a block gas total above zero.
C12_Witness ==
    /\ resp.op = "commit"
    /\ \E h \in CommittedHeights :
          \E k \in DOMAIN CommittedBlock(h).receipts :
             CommittedBlock(h).receipts[k].block_gas_used > 0

TxHashes(txs) == [i \in 1..Len(txs) |-> TxHash(txs[i])]

\* C13: every committed block has a Merkle root, built over the hashes of
\* its transactions in apply order followed by the sentinel hash, also when
\* the block holds no transaction.
C13_MerkleRoot ==
    \A h \in CommittedHeights :
       /\ CommittedBlock(h).root_hash # NoHash
       /\ CommittedBlock(h).root_hash
             = MerkleRoot(Append(TxHashes(CommittedBlock(h).txs), SentinelHash))

\* A block was committed in which the only DeliverTx failed in execution,
\* so it holds no transaction.
C13_Witness ==
    /\ resp.op = "commit"
    /\ LastBlock(store, MAIN_BRANCH_NAME).txs = <<>>
    /\ Balance(store, MAIN_BRANCH_NAME, "A") = GenesisBalance - MaxGasLimit * GAS_PRICE_MIN

\* C14: in a committed block every receipt's block_gas_used is the sum of
\* tx_gas_used over the block's receipts; in a block in process every
\* receipt's block_gas_used is 0.
C14_BlockGasUsed ==
    /\ \A h \in CommittedHeights :
          \A k \in DOMAIN CommittedBlock(h).receipts :
             CommittedBlock(h).receipts[k].block_gas_used
                = SumGas(CommittedBlock(h).receipts, DOMAIN CommittedBlock(h).receipts)
    /\ \A b \in DOMAIN sb :
          \A k \in DOMAIN sb[b].blk.receipts :
             sb[b].blk.receipts[k].block_gas_used = 0

\* A committed block with two receipts of different gas.
C14_Witness ==
    \E h \in CommittedHeights :
       \E k, l \in DOMAIN CommittedBlock(h).receipts :
          /\ CommittedBlock(h).receipts[k].tx_gas_used
                # CommittedBlock(h).receipts[l].tx_gas_used
          /\ CommittedBlock(h).receipts[k].block_gas_used = 1 + MaxGasLimit

\* C15: Commit answers with the header hash of the block it stored on Main
\* at the height after the last one; Info answers with the height and the
\* header hash of Main's last block (height 0 and an empty hash when there
\* is none), and no step other than Commit changes Main's last block.
C15_CommitAndInfo ==
    [][/\ resp'.op = "commit" =>
             /\ LastBlockHeight(store', MAIN_BRANCH_NAME)
                   = LastBlockHeight(store, MAIN_BRANCH_NAME) + 1
             /\ resp'.val = LastBlock(store', MAIN_BRANCH_NAME).header_hash
             /\ resp'.val # NoHash
       /\ resp'.op = "info" =>
             /\ resp'.h = LastBlockHeight(store, MAIN_BRANCH_NAME)
             /\ resp'.val = IF resp'.h = 0 THEN NoHash
                            ELSE LastBlock(store, MAIN_BRANCH_NAME).header_hash
       /\ resp'.op # "commit" =>
             LastBlock(store', MAIN_BRANCH_NAME) = LastBlock(store, MAIN_BRANCH_NAME)]_vars

\* Info during the second block, after a DeliverTx, still answers height 1.
C15_Witness ==
    /\ resp.op = "info" /\ resp.h = 1 /\ resp.val # NoHash
    /\ phase = "inblock"
    /\ sb[DELIVER_TX_BRANCH_NAME].txh # <<>>

\* CheckTx holds no account write of its own.
CheckTxUntouched ==
    \A i \in 1..Len(store[CHECK_TX_BRANCH_NAME].own) :
       store[CHECK_TX_BRANCH_NAME].own[i].acct = EmptyMap

\* C16: a CheckTx that arrives after a Commit, also before the next
\* BeginBlock, on a CheckTx branch without writes of its own, passes or
\* fails preflight as it would against the accounts Main holds after that
\* Commit.
C16_CheckTxSeesCommit ==
    [][(/\ ApplyStep /\ resp'.br = CHECK_TX_BRANCH_NAME
        /\ phase = "idle" /\ LastBlockHeight(store, MAIN_BRANCH_NAME) > 0
        /\ CheckTxUntouched) =>
          \A tx \in Txs, o \in EvmOutcomes :
             ApplyTx(CHECK_TX_BRANCH_NAME, tx, o) =>
                (resp'.out = "rejected" <=> PreExec(store, MAIN_BRANCH_NAME, tx) # "ok")]_vars

\* C17: after BeginBlock both DeliverTx and CheckTx exist as children of
\* Main forked at its committed tip, every account and storage read on them
\* equals the read on Main, which BeginBlock did not change, and each
\* wrapper has no tx hashes and an empty block in process at the height
\* after the last committed one.
C17_BeginBlockRefreshes ==
    [][resp'.op = "begin_block" =>
          /\ Reads(store', MAIN_BRANCH_NAME) = Reads(store, MAIN_BRANCH_NAME)
          /\ \A b \in Transient :
                /\ BranchExists(store', b)
                /\ store'[b].base = AllVers(store, MAIN_BRANCH_NAME)
                /\ Reads(store', b) = Reads(store', MAIN_BRANCH_NAME)
                /\ sb'[b].txh = <<>>
                /\ sb'[b].blk.height = LastBlockHeight(store, MAIN_BRANCH_NAME) + 1
                /\ sb'[b].blk.txs = <<>>
                /\ sb'[b].blk.receipts = EmptyMap
                /\ sb'[b].blk.root_hash = NoHash
                /\ sb'[b].blk.header_hash = NoHash]_vars

\* The second BeginBlock, after a block that moved TransferValue to B.
C17_Witness ==
    /\ resp.op = "begin_block"
    /\ LastBlockHeight(store, MAIN_BRANCH_NAME) = 1
    /\ Balance(store, CHECK_TX_BRANCH_NAME, "B") = TransferValue
    /\ Balance(store, DELIVER_TX_BRANCH_NAME, "B") = TransferValue

\* C18: whenever the branch refresh of BeginBlock or Ledger::commit is at
\* the point of mutating branches, the consensus connection holds the write
\* locks of Main, DeliverTx and CheckTx, so no CheckTx holds its lock then.
C18_AllLocksHeld ==
    lk.cons \in {"refresh_check", "commit_deliver", "commit_merged"} =>
       /\ lk.main = Consensus
       /\ lk.cons # "commit_merged" => lk.deliver = Consensus
       /\ lk.check = Consensus
       /\ lk.mem # "locked"

\* C19: the k-th successful apply_tx of a block on a branch leaves
\* Version(height, k) as the branch's latest version with its writes, is
\* appended at place k of txs and of tx_hashes_in_process (index k - 1) and
\* gets a receipt with tx_index k - 1; a failed apply_tx appends nothing;
\* the versions created on the branch carry the block's height and strictly
\* increasing tx positions, and no apply_tx finds its version already there.
C19_TxPositions ==
    [][ApplyStep =>
          LET b == resp'.br
              own == store'[b].own
              k == Len(sb'[b].txh)
              w == sb'[b]
          IN  /\ resp'.out # "version"
              /\ \A i \in 1..Len(own) : own[i].name[1] = w.blk.height
              /\ \A i, j \in 1..Len(own) : i < j => own[i].name[2] < own[j].name[2]
              /\ resp'.out = "ok" =>
                    /\ k = Len(sb[b].txh) + 1
                    /\ own[Len(own)].name = VsVersion(sb[b].blk.height, k)
                    /\ own[Len(own)].acct # EmptyMap
                    /\ SubSeq(w.txh, 1, k - 1) = sb[b].txh
                    /\ SubSeq(w.blk.txs, 1, k - 1) = sb[b].blk.txs
                    /\ Len(w.blk.txs) = k
                    /\ w.txh[k] = TxHash(w.blk.txs[k])
                    /\ w.txh[k] \in DOMAIN w.blk.receipts
                    /\ w.blk.receipts[w.txh[k]].tx_index = k - 1
                    /\ w.blk.receipts[w.txh[k]].tx_hash = w.txh[k]
                    /\ \A h \in DOMAIN sb[b].blk.receipts :
                          w.blk.receipts[h] = sb[b].blk.receipts[h]
              /\ resp'.out # "ok" => sb' = sb]_vars

\* The second successful transaction of block 1 on DeliverTx.
C19_Witness ==
    /\ resp.op = "apply_tx" /\ resp.out = "ok" /\ resp.br = DELIVER_TX_BRANCH_NAME
    /\ Len(sb[DELIVER_TX_BRANCH_NAME].txh) = 2
    /\ VersionNames(store[DELIVER_TX_BRANCH_NAME].own)
          = <<VsVersion(1, 0), VsVersion(1, 1), VsVersion(1, 2)>>

\* The check of preflight that a transaction fails first on a branch, in the
\* order gas price, signature, nonce, balance ("ok" when it fails none).
FirstFailing(b, tx) ==
    IF tx.gas_price < GAS_PRICE_MIN THEN "gas_price"
    ELSE IF tx.from \notin Signers THEN "signature"
    ELSE IF tx.nonce # Nonce(store, b, tx.from) THEN "nonce"
    ELSE IF \/ tx.gas_limit = 0
            \/ tx.value + tx.gas_price * tx.gas_limit > U256Max
            \/ tx.value + tx.gas_price * tx.gas_limit > Balance(store, b, tx.from)
         THEN "balance"
    ELSE "ok"

\* C20: preflight reports the first check that fails in the order gas
\* price, signature, nonce, balance, whatever the later checks would say.
C20_PreflightOrder ==
    \A b \in DOMAIN store \cap Transient, tx \in Txs :
       PreExec(store, b, tx) = FirstFailing(b, tx)

\* A transaction was rejected on a branch where A's nonce is 1, so that the
\* offered transaction with a low gas price and nonce 0 fails both checks.
C20_Witness ==
    /\ resp.op = "apply_tx" /\ resp.out = "rejected"
    /\ Nonce(store, resp.br, "A") = 1
    /\ \E tx \in Txs :
          /\ ~CheckGasPrice(tx) /\ ~CheckNonce(store, resp.br, tx)
          /\ PreExec(store, resp.br, tx) = "gas_price"

\* The CheckTx requests that carry an EVM transaction which passes the gas
\* price and signature checks and whose nonce is not the sender's nonce on
\* the CheckTx branch
NonceMismatch(bytes) ==
    /\ bytes.kind = "evm"
    /\ CheckGasPrice(bytes.tx)
    /\ RecoverSigner(bytes.tx) # NoSigner
    /\ ~CheckNonce(store, CHECK_TX_BRANCH_NAME, bytes.tx)

\* C21: a CheckTx of a transaction whose nonce differs from the sender's
\* nonce on the CheckTx branch answers code 1 with the message
\* "Invalid nonce: <tx nonce>, should be: <account nonce>" and changes
\* neither the store nor the wrappers.
C21_InvalidNonceMessage ==
    [][resp'.op = "check_tx" =>
        \A bytes \in TxBytes, o \in EvmOutcomes :
            (NonceMismatch(bytes) /\ AppCheckTx(0, bytes, o)) =>
                /\ resp'.code = 1
                /\ resp'.log = InvalidNonce(bytes.tx.nonce,
                                   Nonce(store, CHECK_TX_BRANCH_NAME,
                                         RecoverSigner(bytes.tx)))
                /\ store' = store
                /\ sb' = sb]_vars

\* C22: on every branch and for every transaction, check_balance rejects
\* exactly when gas_limit is 0, or gas_price * gas_limit or its sum with the
\* value exceeds the largest word, or the sum exceeds the sender's balance
\* on the branch; a sum equal to the balance is accepted.
C22_BalancePreflight ==
    \A b \in DOMAIN store \cap Transient, tx \in Txs :
        ~CheckBalance(store, b, tx) <=>
            \/ tx.gas_limit = 0
            \/ tx.gas_price * tx.gas_limit > U256Max
            \/ tx.value + tx.gas_price * tx.gas_limit > U256Max
            \/ tx.value + tx.gas_price * tx.gas_limit >
                   Balance(store, b, RecoverSigner(tx))

\* A transaction was accepted that left its sender A nothing: value plus the
\* fee limit was A's whole balance.
C22_Witness ==
    /\ resp.op = "apply_tx"
    /\ resp.out = "ok"
    /\ Nonce(store, resp.br, "A") > 0
    /\ Balance(store, resp.br, "A") = 0

\* The heights of the versions on Main
MainVersionHeights ==
    {store[MAIN_BRANCH_NAME].own[i].name[1] :
        i \in 1..Len(store[MAIN_BRANCH_NAME].own)}

\* C23: after a restart from the snapshot file, whatever the point of the
\* crash, Main holds no version of a block above the last committed one and
\* the next BeginBlock can create Version(last + 1, 0) on Main.
C23_RestartCleansMain ==
    (resp.op = "restart" /\ resp.out = "loaded") =>
        /\ \A h \in MainVersionHeights : h <= LastBlockHeight(store, MAIN_BRANCH_NAME)
        /\ ~PrepareFails(RefreshBranches(store), MAIN_BRANCH_NAME)

\* C24: when Ledger::commit returns an error, Main's versions with their
\* writes (accounts, blocks, block hashes), Main's block_in_process and
\* tx_hashes_in_process, and DeliverTx's in-process values are what they
\* were before the call.
C24_CommitAllOrNothing ==
    [][(resp'.op = "commit" /\ resp'.out = "error") =>
        /\ AllVers(store', MAIN_BRANCH_NAME) = AllVers(store, MAIN_BRANCH_NAME)
        /\ sb'[MAIN_BRANCH_NAME] = sb[MAIN_BRANCH_NAME]
        /\ sb'[DELIVER_TX_BRANCH_NAME] = sb[DELIVER_TX_BRANCH_NAME]]_vars

\* C25: a new CheckTx and a DeliverTx answer code 1 with the log
\* "Invalid format" for bytes that do not decode and code 1 with the log
\* "Should not appear in ABCI" for a Tx that is not valid in ABCI, and
\* change neither the store, the wrappers nor the locks.
C25_UndecodableAndInvalid ==
    [][(resp'.op \in {"check_tx", "deliver_tx"} /\ resp'.br = "") =>
        \A bytes \in TxBytes :
            (/\ bytes.kind # "evm"
             /\ \E o \in OutcomesFor(0, bytes) :
                   AppCheckTx(0, bytes, o) \/ AppDeliverTx(bytes, o)) =>
                /\ resp'.code = 1
                /\ resp'.log = IF bytes.kind = "malformed"
                               THEN <<"Invalid format">>
                               ELSE <<"Should not appear in ABCI">>
                /\ UNCHANGED <<store, sb, lk>>]_vars

\* C30: BeginBlock succeeds whatever the length of the proposer address,
\* and the coinbase made of the address has 20 bytes.
C30_ProposerAnyLength ==
    resp.op = "begin_block" =>
        /\ resp.out = "ok"
        /\ TmProposerToEvmFormat(sb[MAIN_BRANCH_NAME].blk.proposer).ok
        /\ Len(TmProposerToEvmFormat(sb[MAIN_BRANCH_NAME].blk.proposer).h160) = H160Len

\* C26: the balance handler (rollback_to_height) and the contract call
\* (snapshot_at_height, once the call has its gas limit), asked for a block
\* number that maps to height 0,
\* answer with an error and create no branch and no version, whatever
\* branches exist.
C26_HeightZero ==
    [][\A a \in CallAddrs, bn \in BlockNumbers :
          (/\ BlockNumberToHeight(store, bn, "bhash") = 0
           /\ resp'.out # "panic"
           /\ \/ RpcBalance(a, bn)
              \/ \E t \in Threads : CallEnter(t, a, bn)) =>
              /\ resp'.out = "err"
              /\ resp'.h = 0
              /\ UNCHANGED <<store, eph, ledEph, rpc>>]_vars

\* A contract call for Latest was refused with height 0 before any block
\* was committed.
C26_Witness ==
    /\ resp.op = "call" /\ resp.out = "err" /\ resp.h = 0
    /\ LastBlockHeight(store, MAIN_BRANCH_NAME) = 0

\* C27: two contract calls in flight never hold the same counter value.
C27_DistinctCounterValues ==
    \A t1, t2 \in Threads :
        (/\ t1 # t2
         /\ rpc.calls[t1].pc # "idle"
         /\ rpc.calls[t2].pc # "idle") => rpc.calls[t1].id # rpc.calls[t2].id

\* C28: a contract call at a committed height h answers with what the
\* address held on Main at the end of block h, and the call changes nothing
\* on Main.
C28_CallAtHeight ==
    (/\ resp.op = "call" /\ resp.out = "ok"
     /\ HasKey(store, MAIN_BRANCH_NAME, "blocks", resp.h))
       => resp.val = BalanceAtEndOfBlock(store, resp.h, resp.a)

\* The store with the ephemeral branches of the historical handlers in it:
\* each one a child of Main, keyed by its name, holding the versions the
\* handler created on it.  A branch that is left on the ledger's own
\* collections only holds the version rollback_to_height created, which is
\* (height + 1, 0) for the height + 1 of its name.
EphKey(name) == ToString(name)

EphNames == DOMAIN eph \cup ledEph

EphVersionNames(name) ==
    IF name \in DOMAIN eph THEN eph[name] ELSE <<VsVersion(name[2], 0)>>

EphVersions(name) ==
    [i \in 1..Len(EphVersionNames(name)) |->
        NewVersion(EphKey(name), EphVersionNames(name)[i])]

WholeStore ==
    LET keys == {EphKey(n) : n \in EphNames}
    IN  [x \in DOMAIN store \cup keys |->
            IF x \in DOMAIN store THEN store[x]
            ELSE LET n == CHOOSE n \in EphNames : EphKey(n) = x
                 IN  [base |-> AllVers(store, MAIN_BRANCH_NAME),
                      own |-> EphVersions(n)]]

\* The three branches of the consensus handlers
Core(s) ==
    [x \in DOMAIN s \cap ({MAIN_BRANCH_NAME} \cup Transient) |-> s[x]]

\* What BeginBlock does on store s: whether Main's version creation fails,
\* and the branches and in-process values it leaves otherwise
BeginBlockOutcome(s, proposer, timestamp) ==
    LET s0 == RefreshBranches(s)
        m == PrepareNextBlock(s0, MAIN_BRANCH_NAME, proposer, timestamp)
        d == PrepareNextBlock(m.store, DELIVER_TX_BRANCH_NAME, proposer, timestamp)
        c == PrepareNextBlock(d.store, CHECK_TX_BRANCH_NAME, proposer, timestamp)
    IN  IF PrepareFails(s0, MAIN_BRANCH_NAME)
        THEN [out |-> "error", store |-> Core(s0), sb |-> <<>>]
        ELSE [out |-> "ok", store |-> Core(c.store), sb |-> <<m.w, d.w, c.w>>]

ApplyTxOutcome(s, b, tx, o) ==
    LET r == ApplyTxResult(s, sb[b], b, tx, o)
    IN  [out |-> r.out, store |-> Core(r.store), sb |-> r.w]

CommitOutcome(s) ==
    LET r == LedgerCommit(s, sb)
    IN  [out |-> LastBlockHash(r.store, MAIN_BRANCH_NAME),
         store |-> Core(r.store), sb |-> r.sb]

C31_VicinityOfBlock ==
    [][(phase = "inblock" /\ resp'.op = "apply_tx") =>
          ExecVicinity(vic, resp'.br)
            = UpdateVicinity(sb[resp'.br].blk.proposer, sb[resp'.br].blk.timestamp)]_vars

\* C32: while a block is in process, no version identifier of DeliverTx is
\* on Main although both hold a version named (h, 0), so the merge of
\* Commit does not fail; and Main never holds one identifier twice.
C32_MergeNeverCollides ==
    /\ phase = "inblock" =>
          ~BranchMergeFails(store, DELIVER_TX_BRANCH_NAME, MAIN_BRANCH_NAME)
    /\ Cardinality(VersionIds(AllVers(store, MAIN_BRANCH_NAME)))
          = Len(AllVers(store, MAIN_BRANCH_NAME))

\* Block 2 with a transaction is committed: Main holds the version (2, 0) it
\* created and the versions (2, 0) and (2, 1) DeliverTx created.
C32_Witness ==
    /\ resp.op = "commit" /\ resp.out = "ok"
    /\ {<<VsVersion(2, 0), MAIN_BRANCH_NAME>>,
        <<VsVersion(2, 0), DELIVER_TX_BRANCH_NAME>>,
        <<VsVersion(2, 1), DELIVER_TX_BRANCH_NAME>>}
          \subseteq VersionIds(AllVers(store, MAIN_BRANCH_NAME))

\* The receipts of the committed blocks and of the block in process on
\* DeliverTx
StoredReceipts ==
    UNION {{CommittedBlock(h).receipts[k] : k \in DOMAIN CommittedBlock(h).receipts} :
              h \in CommittedHeights}
      \cup {sb[DELIVER_TX_BRANCH_NAME].blk.receipts[k] :
              k \in DOMAIN sb[DELIVER_TX_BRANCH_NAME].blk.receipts}

\* C34: every log of a stored receipt carries the receipt's tx_index and, as
\* log_index_in_tx, its position among the transaction's logs.
C34_LogIndexes ==
    \A r \in StoredReceipts :
        \A i \in 1..Len(r.logs) :
            /\ r.logs[i].tx_index = r.tx_index
            /\ r.logs[i].log_index_in_tx = i - 1

\* The guards a thread holds, the guard it is about to ask for, and the
\* place of each lock in the order Main, DeliverTx, CheckTx
GuardsHeld(th) ==
    {l \in {"main", "deliver", "check"} : lk[l] = th}
      \cup (IF th \in lk.readers THEN {"main"} ELSE {})

GuardWanted(th) ==
    IF th = Consensus
    THEN IF lk.cons \in {"refresh_main", "commit_main"} THEN {"deliver"}
         ELSE IF lk.cons = "refresh_deliver" THEN {"check"}
         ELSE IF lk.cons = "commit_read" THEN {"main"}
         ELSE {}
    ELSE {}

LockRank(l) == IF l = "main" THEN 1 ELSE IF l = "deliver" THEN 2 ELSE 3

ThreadAt(th) ==
    IF th = Consensus THEN lk.cons ELSE IF th = Mempool THEN lk.mem ELSE lk.query

GuardOrder ==
    \A th \in {Consensus, Mempool, Query} :
        /\ \A w \in GuardWanted(th), h \in GuardsHeld(th) : LockRank(h) < LockRank(w)
        /\ ThreadAt(th) = "idle" => GuardsHeld(th) = {}

\* C33: the handlers take the locks in the order Main, DeliverTx, CheckTx
\* and never ask for one they hold, a connection that runs no handler holds
\* no guard, and every handler that has started comes to its end, with the
\* connections running beside each other in every order (the body of
\* refresh_inner, which asks for no lock, taken to come to its end).
C33_NoDeadlock ==
    /\ []GuardOrder
    /\ []<>(lk.cons # "refresh_check") =>
           ((lk.cons # "idle") ~> (lk.cons = "idle"))
    /\ (lk.mem # "idle") ~> (lk.mem = "idle")
    /\ (lk.query # "idle") ~> (lk.query = "idle")

\* BeginBlock holds Main and DeliverTx and waits for CheckTx, which a CheckTx
\* holds.
C33_Witness ==
    /\ lk.cons = "refresh_deliver" /\ lk.check = Mempool
    /\ lk.query = "idle"

\* C35: contract_handle gets its gas_limit from every CallRequest without
\* failing, whatever gas and gas_price the request carries or leaves out.
C35_GasLimitNeverFails ==
    [][resp'.op = "call" => resp'.out # "panic"]_vars

\* C36: after block_transaction_count_by_number or
\* transaction_by_block_number_and_index returns successfully, its branch is
\* on none of the collections of the ledger State, the EVM ones included.
C36_RemovedWhereCreated ==
    [][\A bn \in BlockNumbers :
          (/\ \/ RpcBlockTransactionCountByNumber(bn)
              \/ \E index \in 0..(MaxTxs - 1), conv \in BOOLEAN :
                    RpcTransactionByBlockNumberAndIndex(bn, index, conv)
           /\ resp'.out = "ok") =>
          EphName(resp'.op, resp'.h) \notin DOMAIN eph' \cup ledEph']_vars

\* C37: a CheckTx whose type is not 0 answers code 0 with an empty log
\* whatever its bytes are, and leaves the store, the wrappers (the CheckTx
\* one with its in-process block included) and the lock guards as they were.
C37_RecheckDoesNothing ==
    [][\A type \in CheckTxTypes \ {0}, bytes \in TxBytes :
          \A o \in OutcomesFor(type, bytes) :
             AppCheckTx(type, bytes, o) =>
                /\ resp'.op = "check_tx" /\ resp'.code = 0 /\ resp'.log = NoMessage
                /\ store' = store /\ sb' = sb /\ lk' = lk
                /\ phase' = phase /\ vic' = vic]_vars

\* a recheck answered while the CheckTx wrapper holds a transaction
C37_Witness ==
    /\ resp.op = "check_tx" /\ resp.br = "" /\ resp.code = 0
    /\ Len(sb[CHECK_TX_BRANCH_NAME].txh) > 0
    /\ BranchHasVersions(store, CHECK_TX_BRANCH_NAME)

\* The store charge_fee reads the caller's account from: the executor's
\* changes on the success path, the branch without the transaction's
\* version on the failure path.
FeeChargedOn(s, w, b, tx, o) ==
    LET s1 == VersionCreateByBranch(s, b, TxVersion(w))
    IN  IF o.ok THEN Exec(s1, b, tx, o)
        ELSE CreateVersionIfFirstTxFailed(VersionPopByBranch(Exec(s1, b, tx, o), b), b)

\* C38: for a transaction that passed preflight, gas_used * gas_price fits
\* in a word, value plus that fee is within the sender's balance before the
\* execution, the account charge_fee reads holds at least the fee (so the
\* saturating subtraction takes off exactly the fee), and that account
\* exists whenever the fee is not zero.
C38_FeeWithinBalance ==
    [][(ApplyStep /\ resp'.out \in {"ok", "reverted"}) =>
          \A tx \in Txs, o \in EvmOutcomes :
             ApplyTx(resp'.br, tx, o) =>
                LET b == resp'.br
                    ret == ExecRet(tx, o)
                    at == FeeChargedOn(store, sb[b], b, tx, o)
                IN  /\ ret.fee_used <= U256Max
                    /\ tx.value + ret.fee_used <= Balance(store, b, ret.caller)
                    /\ ret.fee_used <= Balance(at, b, ret.caller)
                    /\ Balance(store', b, ret.caller)
                          = Balance(at, b, ret.caller) - ret.fee_used
                    /\ ret.fee_used # 0 => HasKey(at, b, "acct", ret.caller)]_vars

\* A failed execution whose fee was all the sender had left after an
\* earlier transaction of the block.
C38_Witness ==
    /\ resp.op = "apply_tx" /\ resp.out = "reverted"
    /\ Nonce(store, resp.br, "A") = 1
    /\ Balance(store, resp.br, "A") = 0

\* C39: when charge_fee writes the caller's account on a branch, the branch
\* has a version of its own to take the write; and an apply_tx that failed
\* in execution leaves the branch the versions it had before the call, or
\* the single Version(0, 0) when it had none.
C39_FeeWrittenUnderVersion ==
    [][(ApplyStep /\ resp'.out \in {"ok", "reverted"}) =>
          \A tx \in Txs, o \in EvmOutcomes :
             ApplyTx(resp'.br, tx, o) =>
                LET b == resp'.br
                    ret == ExecRet(tx, o)
                    own == store'[b].own
                IN  /\ ret.fee_used # 0 =>
                          /\ BranchHasVersions(FeeChargedOn(store, sb[b], b, tx, o), b)
                          /\ own # <<>>
                          /\ ret.caller \in DOMAIN own[Len(own)].acct
                    /\ resp'.out = "reverted" =>
                          IF BranchHasVersions(store, b)
                          THEN VersionNames(own) = VersionNames(store[b].own)
                          ELSE VersionNames(own) = <<VsVersion(0, 0)>>]_vars

\* A failed transaction on a DeliverTx branch that had the block's version:
\* the branch keeps that one version, and the fee debit is under it.
C39_Witness ==
    /\ resp.op = "apply_tx" /\ resp.out = "reverted"
    /\ resp.br = DELIVER_TX_BRANCH_NAME
    /\ Len(store[DELIVER_TX_BRANCH_NAME].own) = 1
    /\ store[DELIVER_TX_BRANCH_NAME].own[1].name # VsVersion(0, 0)
    /\ "A" \in DOMAIN store[DELIVER_TX_BRANCH_NAME].own[1].acct

\* C40: while one invocation of transaction_count is between creating and
\* removing its branch, another invocation for the same height gets its
\* branch too, and one that returns leaves the other's branch in place.
C40_ConcurrentSameHeight ==
    [][\A t \in Threads : \A u \in Threads \ {t} :
          rpc.calls[u].pc = "transaction_count" =>
             /\ \A a \in CallAddrs, bn \in BlockNumbers :
                   (/\ TransactionCountEnter(t, a, bn)
                    /\ BlockNumberToHeight(store, bn, "blocks") = rpc.calls[u].h) =>
                   rpc'.calls[t].pc = "transaction_count"
             /\ (TransactionCountReturn(t) /\ rpc.calls[t].h = rpc.calls[u].h) =>
                   EphName("transaction_count", rpc.calls[u].h) \in ledEph']_vars

====
